---- MODULE Spec2Model ----
(***************************************************************************)
(* gstore-node: schema registry (lib/schema.js), validation engine, key    *)
(* builder and the hook-augmented CRUD / transaction orchestration of the  *)
(* Model class.                                                            *)
(*                                                                         *)
(* JavaScript values are records [t, c, x]: t is the `typeof` tag, c the   *)
(* constructor name and x the printed payload.  Objects whose key order    *)
(* matters (data bags, schema.paths, the errors object of validate) are    *)
(* sequences of [k, v] entries in insertion order.                         *)
(***************************************************************************)
EXTENDS Integers, Sequences, FiniteSets, TLC

\* ------------------------------------------------------------------ bounds
\* longest data bag handed to save when validation is explored
MaxBagLen == 2

\* ------------------------------------------------------------- JS values
JSNull == [t |-> "object", c |-> "", x |-> "null"]
JSUndefined == [t |-> "undefined", c |-> "", x |-> "undefined"]
Str(s) == [t |-> "string", c |-> "String", x |-> s]
Num(s) == [t |-> "number", c |-> "Number", x |-> s]
DateObj == [t |-> "object", c |-> "Date", x |-> "date"]
ArrayObj == [t |-> "object", c |-> "Array", x |-> "[]"]
BufferObj == [t |-> "object", c |-> "Buffer", x |-> "buffer"]
GeoPointObj == [t |-> "object", c |-> "GeoPoint", x |-> "geo"]
IntObj(s) == [t |-> "object", c |-> "Int", x |-> s]
DoubleObj(s) == [t |-> "object", c |-> "Double", x |-> s]
BoolTrue == [t |-> "boolean", c |-> "Boolean", x |-> "true"]
BoolFalse == [t |-> "boolean", c |-> "Boolean", x |-> "false"]

\* the strings the model draws from, and what String.prototype.trim makes of them
Trimmed(s) ==
    CASE s = "  " -> ""
      [] s = " John " -> "John"
      [] OTHER -> s

\* digits-only strings and whole-number literals (what n % 1 === 0 accepts)
WholeNumerals == {"0", "1", "2", "3", "5", "123", "1234"}
FractionNumerals == {"1.5"}

\* JS truthiness
Truthy(v) ==
    /\ v # JSNull
    /\ v # JSUndefined
    /\ ~(v.t = "string" /\ v.x = "")
    /\ ~(v.t = "number" /\ v.x \in {"0", "NaN"})

\* ------------------------------------------------ ordered objects (bags)
Entry(k, v) == [k |-> k, v |-> v]
BagKeys(bag) == [i \in 1..Len(bag) |-> bag[i].k]
BagKeySet(bag) == {bag[i].k : i \in 1..Len(bag)}
BagHas(bag, k) == k \in BagKeySet(bag)
BagIndex(bag, k) == CHOOSE i \in 1..Len(bag) : bag[i].k = k
\* obj[k], undefined when the key is absent
BagGet(bag, k) == IF BagHas(bag, k) THEN bag[BagIndex(bag, k)].v ELSE JSUndefined
\* obj[k] = v keeps the position of an existing key and appends a new one
BagSet(bag, k, v) ==
    IF BagHas(bag, k)
    THEN [bag EXCEPT ![BagIndex(bag, k)] = Entry(k, v)]
    ELSE Append(bag, Entry(k, v))
\* delete obj[k]
BagDelete(bag, k) == SelectSeq(bag, LAMBDA e : e.k # k)

Has(f, a) == a \in DOMAIN f

\* ------------------------------------------------------- Schema registry
reserved ==
    {"ds", "entityKey", "emit", "on", "once", "listeners", "removeListener",
     "errors", "init", "isModified", "isNew", "get", "modelName", "save",
     "schema", "set", "toObject", "validate", "pre", "post", "_pre", "_post"}

IS_ENTITY_HOOK == {"save"}

\* the function of the default pre-save middleware, as an identity in the queues
ValidateMiddleware == "defaultMiddleware.fn"

\* extend(target, src): own keys of src win, the other keys of target survive
Extend(target, src) ==
    [k \in DOMAIN target \cup DOMAIN src |->
        IF k \in DOMAIN src THEN src[k] ELSE target[k]]

defaultOptions(options) ==
    LET optionsDefault == [validateBeforeSave |-> TRUE, queries |-> [readAll |-> FALSE]]
        merged == Extend(optionsDefault, options)
    IN  IF Has(options, "queries")
        THEN [merged EXCEPT !["queries"] = Extend(optionsDefault.queries, options.queries)]
        ELSE merged

EmptyQueue == [pres |-> <<>>, post |-> <<>>]

\* queue[hook] is created on first use
Vivify(queue, hook) ==
    IF Has(queue, hook)
    THEN queue
    ELSE [k \in DOMAIN queue \cup {hook} |-> IF k = hook THEN EmptyQueue ELSE queue[k]]

\* names every plain object answers to through Object.prototype: a lookup
\* table[name] on an object literal finds them although the literal lacks them
ObjectPrototypeKeys ==
    {"constructor", "hasOwnProperty", "isPrototypeOf", "propertyIsEnumerable",
     "toLocaleString", "toString", "valueOf"}

\* reserved[k] is truthy
ReservedLookup(k) == k \in reserved \cup ObjectPrototypeKeys

\* IS_ENTITY_HOOK[hook] is truthy
EntityHookLookup(hook) == hook \in IS_ENTITY_HOOK \cup ObjectPrototypeKeys

HookScope(hook) == IF EntityHookLookup(hook) THEN "entity" ELSE "model"

\* this.callQueue lacks the scope of the hook: queue is undefined and
\* queue.hasOwnProperty(hook) is a TypeError
HookThrows(schema, hook) == ~Has(schema.callQueue, HookScope(hook))

\* variants that put the new hook at the head of its list
SchemaPrePrepending(schema, hook, fn) ==
    LET scope == IF hook = "save" THEN "entity" ELSE "model"
        queue == Vivify(schema.callQueue[scope], hook)
    IN  [schema EXCEPT !.callQueue[scope] =
            [queue EXCEPT ![hook].pres = <<fn>> \o @]]

SchemaPostPrepending(schema, hook, fn) ==
    LET scope == IF hook = "save" THEN "entity" ELSE "model"
        queue == Vivify(schema.callQueue[scope], hook)
    IN  [schema EXCEPT !.callQueue[scope] =
            [queue EXCEPT ![hook].post = <<fn>> \o @]]

SchemaPre(schema, hook, fn) ==
    LET scope == HookScope(hook)
        queue == Vivify(schema.callQueue[scope], hook)
    IN  [schema EXCEPT !.callQueue[scope] =
            [queue EXCEPT ![hook].pres = Append(@, fn)]]

SchemaPost(schema, hook, fn) ==
    LET scope == HookScope(hook)
        queue == Vivify(schema.callQueue[scope], hook)
    IN  [schema EXCEPT !.callQueue[scope] =
            [queue EXCEPT ![hook].post = Append(@, fn)]]

\* new Schema(obj, options): obj is an ordered object name -> descriptor;
\* the constructor throws on a reserved name
SchemaThrows(obj) == \E i \in 1..Len(obj) : ReservedLookup(obj[i].k)

SchemaNew(obj, options) ==
    SchemaPre([paths |-> obj,
               methods |-> <<>>,
               virtuals |-> {},
               virtualTypes |-> <<>>,
               callQueue |-> [model |-> <<>>, entity |-> <<>>],
               options |-> defaultOptions(options)],
              "save", ValidateMiddleware)

\* new VirtualType(name): the handle a virtual is declared by; virtualTypes
\* holds the handles in the order they were created, virtuals the own keys
\* they are kept under
VirtualType(name) == [name |-> name, getter |-> "none", setter |-> "none"]

\* this.virtuals.hasOwnProperty is the handle of a virtual of that name, not
\* the inherited method: calling it is a TypeError
VirtualThrows(schema) == "hasOwnProperty" \in schema.virtuals

SchemaVirtual(schema, name) ==
    IF name \in schema.virtuals
    THEN schema
    ELSE [schema EXCEPT !.virtuals = @ \cup {name},
                        !.virtualTypes = Append(@, VirtualType(name))]

\* this.virtuals[name], as the position of the handle in virtualTypes
VirtualHandle(schema, name) ==
    CHOOSE h \in 1..Len(schema.virtualTypes) : schema.virtualTypes[h].name = name

\* handle.get(fn) / handle.set(fn)
VirtualGet(schema, h, fn) == [schema EXCEPT !.virtualTypes[h].getter = fn]
VirtualSet(schema, h, fn) == [schema EXCEPT !.virtualTypes[h].setter = fn]

\* schema.path(path, obj) with a descriptor
PathThrows(path) == ReservedLookup(path)
SchemaSetPath(schema, path, obj) == [schema EXCEPT !.paths = BagSet(@, path, obj)]

\* a function value
Fn(name) == [t |-> "function", c |-> "Function", x |-> name]

\* Object.keys(null) is a TypeError
MethodThrows(name) == name.t # "string" /\ name = JSNull

\* mapping[i..] copied into the table, function values only
RECURSIVE MethodsFrom(_, _, _)
MethodsFrom(methods, mapping, i) ==
    IF i > Len(mapping)
    THEN methods
    ELSE MethodsFrom(IF mapping[i].v.t = "function"
                     THEN BagSet(methods, mapping[i].k, mapping[i].v)
                     ELSE methods,
                     mapping, i + 1)

\* a variant that stores whatever it is handed under a string name
SchemaMethodUnchecked(schema, name, fn) ==
    IF name.t = "string"
    THEN [schema EXCEPT !.methods = BagSet(@, name.x, fn)]
    ELSE IF name.t # "object" \/ name = JSNull
         THEN schema
         ELSE [schema EXCEPT !.methods = MethodsFrom(@, name.bag, 1)]

SchemaMethod(schema, name, fn) ==
    IF name.t # "string"
    THEN IF name.t # "object" \/ MethodThrows(name)
         THEN schema
         ELSE [schema EXCEPT !.methods = MethodsFrom(@, name.bag, 1)]
    ELSE IF fn.t = "function"
         THEN [schema EXCEPT !.methods = BagSet(@, name.x, fn)]
         ELSE schema

SchemaHasPath(schema, k) == BagHas(schema.paths, k)
SchemaPath(schema, k) == schema.paths[BagIndex(schema.paths, k)].v

\* hooks registered for `hook`, pre or post, empty when none was registered
QueuedPres(schema, hook) ==
    LET queue == schema.callQueue[HookScope(hook)]
    IN  IF Has(queue, hook) THEN queue[hook].pres ELSE <<>>

QueuedPosts(schema, hook) ==
    LET queue == schema.callQueue[HookScope(hook)]
    IN  IF Has(queue, hook) THEN queue[hook].post ELSE <<>>

\* ---------------------------------------------------- Validation engine
valueIsEmpty(v) ==
    \/ v = JSNull
    \/ v = JSUndefined
    \/ (v.t = "string" /\ Trimmed(v.x) = "")

isInt(n) == n.t = "number" /\ n.x \in WholeNumerals
isFloat(n) == n.t = "number" /\ n.x \in FractionNumerals

\* parseInt(s) / parseFloat(s) is a number, not NaN
ParsesAsNumber(s) == s \in WholeNumerals \cup FractionNumerals

\* /\d{4}-\d{2}-\d{2}([ ,T])?(\d{2}:\d{2}:\d{2})?(\.\d{1,3})?/ finds a match
MatchesDatePattern(s) == s \in {"2016-01-01", "2016-13-45", "2016-01-01T10:00:00"}
\* moment(s).isValid()
MomentIsValid(s) == s \in {"2016-01-01", "2016-01-01T10:00:00"}

\* the error object validateDateTime returns, null when the value is accepted
DateTimeAccepted(value) ==
    ~(/\ value.c # "Date"
      /\ \/ value.t # "string"
         \/ ~MatchesDatePattern(value.x)
         \/ ~MomentIsValid(value.x))

\* validator[rule](value): the named predicates of the validator library
ValidatorAccepts(rule, value) ==
    /\ value.t = "string"
    /\ CASE rule = "isEmail" -> value.x \in {"a@b.c"}
         [] rule = "isURL" -> value.x \in {"http://a.b"}
         [] OTHER -> FALSE

\* an entry of the errors object: the error class, its errorName, the data-bag
\* key whose check produced it and the check that produced it
ErrorOf(class, errorName, field, check) ==
    [class |-> class, errorName |-> errorName, field |-> field, check |-> check]

\* a variant whose double refuses whole numbers
typeValidFractionsOnly(desc, propertyValue) ==
    CASE desc.type = "array" -> propertyValue.c = "Array"
      [] desc.type = "int" ->
            IF propertyValue.c = "Int"
            THEN ParsesAsNumber(propertyValue.x)
            ELSE isInt(propertyValue)
      [] desc.type = "double" ->
            IF propertyValue.c = "Double"
            THEN ParsesAsNumber(propertyValue.x)
            ELSE isFloat(propertyValue)
      [] desc.type = "buffer" -> propertyValue.c = "Buffer"
      [] desc.type = "geoPoint" -> propertyValue.c = "GeoPoint"
      [] OTHER -> propertyValue.t = desc.type

typeValid(desc, propertyValue) ==
    CASE desc.type = "array" -> propertyValue.c = "Array"
      [] desc.type = "int" ->
            IF propertyValue.c = "Int"
            THEN ParsesAsNumber(propertyValue.x)
            ELSE isInt(propertyValue)
      [] desc.type = "double" ->
            IF propertyValue.c = "Double"
            THEN ParsesAsNumber(propertyValue.x)
            ELSE isFloat(propertyValue) \/ isInt(propertyValue)
      [] desc.type = "buffer" -> propertyValue.c = "Buffer"
      [] desc.type = "geoPoint" -> propertyValue.c = "GeoPoint"
      [] OTHER -> propertyValue.t = desc.type

explicitOnlyIsFalse(schema) ==
    Has(schema.options, "explicitOnly") /\ schema.options["explicitOnly"] = FALSE

\* a variant of skip that knows the open schema only
SkipKeyOpenOnly(schema, k) == ~SchemaHasPath(schema, k) /\ explicitOnlyIsFalse(schema)

\* the checks of one key, each taking the errors object and handing it on.
\* skip: the key is a virtual, or undeclared in a schema with explicitOnly false
SkipKey(schema, k) ==
    k \in schema.virtuals \/ (~SchemaHasPath(schema, k) /\ explicitOnlyIsFalse(schema))

\* declared and not skipped
Checked(schema, k) == ~SkipKey(schema, k) /\ SchemaHasPath(schema, k)

CheckProperties(errors, schema, k) ==
    IF ~SkipKey(schema, k) /\ ~SchemaHasPath(schema, k)
    THEN BagSet(errors, "properties", ErrorOf("Error", "", k, "properties"))
    ELSE errors

\* a variant that files a wrong datetime under the name of the field
CheckTypeUnderField(errors, schema, k, raw) ==
    IF Checked(schema, k) /\ ~valueIsEmpty(raw) /\ Has(SchemaPath(schema, k), "type")
    THEN IF SchemaPath(schema, k).type = "datetime"
         THEN IF DateTimeAccepted(IF raw.t = "string" THEN Str(Trimmed(raw.x)) ELSE raw)
              THEN errors
              ELSE BagSet(errors, k, ErrorOf("Object", "Wrong format", k, "datetime"))
         ELSE IF typeValid(SchemaPath(schema, k),
                           IF raw.t = "string" THEN Str(Trimmed(raw.x)) ELSE raw)
              THEN errors
              ELSE BagSet(errors, k, ErrorOf("ValidationError", "", k, "type"))
    ELSE errors

\* raw is entityData[k] as read at the top of the turn
CheckType(errors, schema, k, raw) ==
    IF Checked(schema, k) /\ ~valueIsEmpty(raw) /\ Has(SchemaPath(schema, k), "type")
    THEN LET propertyValue == IF raw.t = "string" THEN Str(Trimmed(raw.x)) ELSE raw
         IN  IF SchemaPath(schema, k).type = "datetime"
             THEN IF DateTimeAccepted(propertyValue)
                  THEN errors
                  ELSE BagSet(errors, "datetime", ErrorOf("Object", "Wrong format", k, "datetime"))
             ELSE IF typeValid(SchemaPath(schema, k), propertyValue)
                  THEN errors
                  ELSE BagSet(errors, k, ErrorOf("ValidationError", "", k, "type"))
    ELSE errors

isRequired(schema, k) ==
    /\ SchemaHasPath(schema, k)
    /\ Has(SchemaPath(schema, k), "required")
    /\ SchemaPath(schema, k).required = TRUE

CheckRequired(errors, schema, k, raw) ==
    IF ~SkipKey(schema, k) /\ isRequired(schema, k) /\ valueIsEmpty(raw)
    THEN BagSet(errors, k, ErrorOf("ValidatorError", "Required", k, "required"))
    ELSE errors

\* current is entityData[k] as it is now
CheckFormat(errors, schema, k, current) ==
    IF /\ Checked(schema, k)
       /\ Has(SchemaPath(schema, k), "validate")
       /\ Truthy(current)
       /\ ~ValidatorAccepts(SchemaPath(schema, k).validate, current)
    THEN BagSet(errors, k, ErrorOf("ValidatorError", "", k, "format"))
    ELSE errors

CheckValues(errors, schema, k, current) ==
    IF /\ Checked(schema, k)
       /\ Has(SchemaPath(schema, k), "values")
       /\ current # Str("")
       /\ current \notin SchemaPath(schema, k).values
    THEN BagSet(errors, k, ErrorOf("Error", "", k, "values"))
    ELSE errors

\* a variant of the turn that runs the required check last
ValidateKeyRequiredLast(st, k, schema) ==
    [errors |->
        CheckRequired(
            CheckValues(
                CheckFormat(
                    CheckType(CheckProperties(st.errors, schema, k),
                              schema, k, BagGet(st.data, k)),
                    schema, k, BagGet(st.data, k)),
                schema, k, BagGet(st.data, k)),
            schema, k, BagGet(st.data, k)),
     data |-> IF k \in schema.virtuals THEN BagDelete(st.data, k) ELSE st.data]

\* one turn of the forEach over Object.keys(entityData): st = [errors, data]
ValidateKey(st, k, schema) ==
    [errors |->
        CheckValues(
            CheckFormat(
                CheckRequired(
                    CheckType(CheckProperties(st.errors, schema, k),
                              schema, k, BagGet(st.data, k)),
                    schema, k, BagGet(st.data, k)),
                schema, k, BagGet(st.data, k)),
            schema, k, BagGet(st.data, k)),
     data |-> IF k \in schema.virtuals THEN BagDelete(st.data, k) ELSE st.data]

RECURSIVE ValidateFrom(_, _, _, _)
ValidateFrom(st, keys, i, schema) ==
    IF i > Len(keys)
    THEN st
    ELSE ValidateFrom(ValidateKey(st, keys[i], schema), keys, i + 1, schema)

\* entity.validate(): the payload {success, errors} and the entityData it leaves
validate(entityData, schema) ==
    LET st == ValidateFrom([errors |-> <<>>, data |-> entityData],
                           BagKeys(entityData), 1, schema)
    IN  [success |-> Len(st.errors) = 0, errors |-> st.errors, entityData |-> st.data]

\* the entry under the last key of the errors object
LastError(errors) == errors[Len(errors)].v

\* result.errors[Object.keys(result.errors)[0]]
FirstError(errors) == errors[1].v

\* a middleware that resolves whatever validate reports
defaultMiddlewareResolving(entityData, schema) ==
    [rejected |-> FALSE, err |-> JSNull, entityData |-> validate(entityData, schema).entityData]

\* the default pre-save middleware: resolves, or rejects with one error
defaultMiddleware(entityData, schema) ==
    LET doValidate == schema.options["validateBeforeSave"]
        result == validate(entityData, schema)
    IN  IF doValidate = TRUE
        THEN IF ~result.success
             THEN [rejected |-> TRUE, err |-> FirstError(result.errors),
                   entityData |-> result.entityData]
             ELSE [rejected |-> FALSE, err |-> JSNull, entityData |-> result.entityData]
        ELSE [rejected |-> FALSE, err |-> JSNull, entityData |-> entityData]

\* ------------------------------------------------------------ Key builder
entityKind == Str("BlogPost")

\* String(array): the elements' strings joined with commas
RECURSIVE JoinFrom(_, _)
JoinFrom(items, i) ==
    IF i > Len(items)
    THEN ""
    ELSE (IF i > 1 THEN "," ELSE "") \o items[i].x \o JoinFrom(items, i + 1)

\* an array of identifiers; x is what Number() and parseInt() read off it
ArrayOf(items) == [t |-> "object", c |-> "Array", x |-> JoinFrom(items, 1), items |-> items]

\* is.array(v)
IsArray(v) == v.c = "Array"

\* the integer part parseInt reads off a numeral
IntPart(x) == IF x = "1.5" THEN "1" ELSE x

\* isFinite(id): Number(id) is neither NaN nor infinite
IsFiniteJS(id) ==
    \/ id = JSNull
    \/ (id.t = "number" /\ id.x # "NaN")
    \/ ((id.t = "string" \/ IsArray(id)) /\ (ParsesAsNumber(id.x) \/ Trimmed(id.x) = ""))

\* parseInt(id, 10) for an id that isFinite accepted
ParseIntJS(id) ==
    IF (id.t \in {"number", "string"} \/ IsArray(id)) /\ ParsesAsNumber(id.x)
    THEN Num(IntPart(id.x))
    ELSE Num("NaN")

parseId(id) == IF IsFiniteJS(id) THEN ParseIntJS(id) ELSE id

\* a path that puts the entity's own segment before its ancestors
getPathOwnFirst(id, ancestors) ==
    (IF id # JSUndefined /\ id # JSNull THEN <<entityKind, parseId(id)>> ELSE <<entityKind>>)
        \o ancestors

\* ancestors is a path (a sequence), empty when no ancestor is supplied
getPath(id, ancestors) ==
    LET path == IF id # JSUndefined /\ id # JSNull
                THEN <<entityKind, parseId(id)>>
                ELSE <<entityKind>>
    IN  ancestors \o path

\* ds.key(path) / ds.key({namespace, path})
getKey(id, ancestors, namespace) ==
    IF namespace # JSUndefined /\ namespace # JSNull
    THEN [path |-> getPath(id, ancestors), namespace |-> namespace]
    ELSE [path |-> getPath(id, ancestors), namespace |-> JSUndefined]

\* a key builder that loses the namespace
keyWithoutNamespace(ids, ancestors, namespace) == getKey(ids, ancestors, JSUndefined)

\* Model.key: one key for a scalar or absent identifier, a sequence of keys
\* for an array of identifiers
key(ids, ancestors, namespace) ==
    IF ids # JSUndefined /\ ids # JSNull
    THEN IF IsArray(ids)
         THEN [i \in 1..Len(ids.items) |-> getKey(ids.items[i], ancestors, namespace)]
         ELSE getKey(ids, ancestors, namespace)
    ELSE getKey(JSNull, ancestors, namespace)

\* ----------------------------------------- Entity instance and serializer
\* the default or null a declared field gets when the data does not carry it
DefaultFor(desc) == IF Has(desc, "default") THEN desc.default ELSE JSNull

NeedsDefault(schema, desc, name) ==
    /\ ~(Has(desc, "optional") /\ desc.optional = TRUE)
    /\ (Has(desc, "default") \/ name \notin schema.virtuals)

RECURSIVE AddDefaults(_, _, _)
AddDefaults(entityData, schema, i) ==
    IF i > Len(schema.paths)
    THEN entityData
    ELSE LET name == schema.paths[i].k
             desc == schema.paths[i].v
         IN  AddDefaults(IF ~BagHas(entityData, name) /\ NeedsDefault(schema, desc, name)
                         THEN BagSet(entityData, name, DefaultFor(desc))
                         ELSE entityData,
                         schema, i + 1)

\* the data bag of a new entity instance: the data passed plus schema defaults
BuildEntityData(data, schema) == AddDefaults(data, schema, 1)

\* Model.__model(data, null, null, null, key)
ModelInstance(data, entityKey, schema) ==
    [entityKey |-> entityKey, entityData |-> BuildEntityData(data, schema)]

\* the names of the declared fields whose descriptor sets excludeFromIndexes
ExcludedFromIndexes(schema) ==
    {schema.paths[i].k : i \in {j \in 1..Len(schema.paths) :
        Has(schema.paths[j].v, "excludeFromIndexes")
        /\ schema.paths[j].v.excludeFromIndexes = TRUE}}

\* datastoreSerializer.toDatastore(entityData, excludeFromIndexes)
toDatastore(entityData, excluded) ==
    [i \in 1..Len(entityData) |->
        [name |-> entityData[i].k, value |-> entityData[i].v,
         excludeFromIndexes |-> entityData[i].k \in excluded]]

\* --------------------------------------------------- Lifecycle controller
VARIABLES
    schema,     \* the schema the model was compiled with
    store,      \* the entities the backend holds: key -> plain data
    tx,         \* the transaction object the caller holds and may pass in
    own,        \* the transaction Model.update opens for itself
    call,       \* arguments and closure variables of the call in progress
    pc,         \* where the call in progress is suspended
    log         \* what the call in progress has done so far, in order

vars == <<schema, store, tx, own, call, pc, log>>

\* longest post-hook queue of a transaction
MaxQueue == 2

NoError == ErrorOf("none", "", "", "")
NotFound == ErrorOf("NotFound", "404", "", "")
BackendError == ErrorOf("BackendError", "", "", "")
HookError(fn) == ErrorOf("HookError", "", fn, "hook")
\* what a backend promise resolves with: nothing, or the array of API responses
ApiResponse == ErrorOf("ApiResponse", "", "", "")
Resolutions == {NoError, ApiResponse}
IsTruthy(r) == r # NoError

NoKey == [path |-> <<>>, namespace |-> JSUndefined]
NoEntity == [entityKey |-> NoKey, entityData |-> <<>>]

Event(ev, on, k, data, err) == [ev |-> ev, on |-> on, key |-> k, data |-> data, err |-> err]

\* a transaction object: not created, open, committed or rolled back
NoTransaction == [state |-> "absent", hasHooks |-> FALSE, post |-> <<>>, executed |-> <<>>]
OpenTransaction == [NoTransaction EXCEPT !.state = "open"]

\* a variant that prepares the transaction anew at every call
hooksTransactionResetting(transaction) ==
    [transaction EXCEPT !.hasHooks = TRUE, !.post = <<>>]

hooksTransaction(transaction) ==
    IF ~transaction.hasHooks
    THEN [transaction EXCEPT !.hasHooks = TRUE, !.post = <<>>]
    ELSE transaction

addHook(transaction, fn) == [transaction EXCEPT !.post = Append(@, fn)]

executePostHooks(transaction) == [transaction EXCEPT !.executed = @ \o transaction.post]

\* ------------------------------------------------- inputs of the lifecycle
\* (id, ancestors, namespace) triples the calls are made with
KeyArgs ==
    {[id |-> Num("5"), ancestors |-> <<>>, namespace |-> JSUndefined],
     [id |-> Str("123"), ancestors |-> <<Str("Parent"), Num("1234")>>, namespace |-> Str("ns")],
     [id |-> Str("abc"), ancestors |-> <<>>, namespace |-> JSUndefined]}

LifecyclePaths ==
    <<Entry("name", [type |-> "string", required |-> TRUE]),
      Entry("age", [type |-> "int", optional |-> TRUE])>>

\* data bags handed to save and update
LifecycleData ==
    {<<Entry("name", Str("John"))>>,
     <<Entry("age", Num("3")), Entry("name", Str("John"))>>,
     <<Entry("name", Str("John")), Entry("age", Str("abc"))>>,
     <<Entry("age", Num("5"))>>,
     <<Entry("nick", Str("J")), Entry("fullname", Str("John Snow")), Entry("name", Str("John"))>>}

StoredData == <<Entry("name", Str("Jane")), Entry("age", Num("1"))>>

StoreSnapshots ==
    {<<>>, [k \in {key(Num("5"), <<>>, JSUndefined)} |-> StoredData]}

Registration(kind, hook, fn) == [kind |-> kind, hook |-> hook, fn |-> fn]

\* the schema.pre / schema.post calls made before the model is compiled
Registrations ==
    {<<>>,
     <<Registration("pre", "delete", "preDeleteA"),
       Registration("pre", "delete", "preDeleteB"),
       Registration("post", "delete", "postDeleteA")>>,
     <<Registration("pre", "save", "preSaveA"),
       Registration("post", "delete", "postDeleteA")>>}

RECURSIVE Register(_, _, _)
Register(sch, regs, i) ==
    IF i > Len(regs)
    THEN sch
    ELSE Register(IF regs[i].kind = "pre"
                  THEN SchemaPre(sch, regs[i].hook, regs[i].fn)
                  ELSE SchemaPost(sch, regs[i].hook, regs[i].fn),
                  regs, i + 1)

LifecycleSchemas ==
    {Register(SchemaVirtual(SchemaNew(LifecyclePaths,
                                      [explicitOnly |-> FALSE, validateBeforeSave |-> v]),
                            "fullname"),
              regs, 1) : v \in BOOLEAN, regs \in Registrations}

NoArgs == [id |-> JSUndefined, ancestors |-> <<>>, namespace |-> JSUndefined]

\* a query object before anything was set on it
NoQuery == [kind |-> "", filters |-> <<>>, order |-> <<>>, limit |-> JSUndefined]

NoCall ==
    [op |-> "none", args |-> NoArgs, id |-> JSUndefined, key |-> NoKey, data |-> <<>>,
     txArg |-> "none", replace |-> FALSE, mode |-> "none", saveTx |-> "none",
     multiple |-> FALSE, options |-> <<>>, queue |-> <<>>, at |-> 0,
     params |-> JSUndefined, query |-> NoQuery,
     entity |-> NoEntity, i |-> 1, error |-> NoError, entityUpdated |-> NoEntity]

Init ==
    /\ schema \in LifecycleSchemas
    /\ store \in StoreSnapshots
    /\ tx = NoTransaction
    /\ own = NoTransaction
    /\ call = NoCall
    /\ pc = "idle"
    /\ log = <<>>

\* a call may start when none is in progress; a transaction argument is an
\* open transaction of the caller with room in its post-hook queue
CanCall(txArg) ==
    /\ pc = "idle"
    /\ txArg \in {"none", "tx", "bad"}
    /\ txArg = "tx" => (tx.state = "open" /\ Len(tx.post) < MaxQueue)

\* the model-scope hooks Model.hooks holds for an operation
ModelPres(op) == QueuedPres(schema, op)
ModelPosts(op) == QueuedPosts(schema, op)

\* ---------------------------------------------------------- Model.update
Callback(err, entity) == Event("cb", "caller", entity.entityKey, entity.entityData, err)
\* the promise handed back rejects and the callback is never invoked
Unhandled(err) == Event("unhandled", "caller", NoKey, <<>>, err)
Issue(ev, on, k) == Event(ev, on, k, <<>>, NoError)
\* a hook ran: err is what it rejected (or called next) with, NoError if nothing
Hook(ev, fn, k, err) == Event(ev, fn, k, <<>>, err)

\* throw Error('Transaction needs to be a gcloud Transaction')
TransactionTypeError ==
    ErrorOf("Error", "Transaction needs to be a gcloud Transaction", "", "transaction")
\* the call threw before it returned
Thrown(err) == Event("throw", "caller", NoKey, <<>>, err)

\* onTransaction(transactionError, apiResponse): the log after it ran
onTransaction(c, l, transactionError) ==
    IF IsTruthy(transactionError) \/ IsTruthy(c.error)
    THEN Append(l, Callback(IF IsTruthy(transactionError) THEN transactionError ELSE c.error,
                            NoEntity))
    ELSE l \o <<Issue("emit:update", "model", c.key), Callback(NoError, c.entityUpdated)>>

\* a variant that commits whatever transaction the update worked on
UpdateDoneCommitting(c, l, err) ==
    IF c.mode = "replace"
    THEN [pc |-> "done",
          log |-> Append(l, Callback(err, IF IsTruthy(err) THEN NoEntity ELSE c.entityUpdated))]
    ELSE IF IsTruthy(err)
         THEN [pc |-> "done", log |-> onTransaction(c, l, err)]
         ELSE [pc |-> "commit", log |-> Append(l, Issue("commit", c.mode, NoKey))]

\* done(err, entity) as update passed it to getInTransaction / save:
\* the caller's callback (replace), onTransaction (transaction supplied), or
\* the function that commits the transaction update opened
UpdateDone(c, l, err) ==
    CASE c.mode = "replace" ->
            [pc |-> "done",
             log |-> Append(l, Callback(err, IF IsTruthy(err) THEN NoEntity ELSE c.entityUpdated))]
      [] c.mode = "own" ->
            IF IsTruthy(err)
            THEN [pc |-> "done", log |-> onTransaction(c, l, err)]
            ELSE [pc |-> "commit", log |-> Append(l, Issue("commit", "own", NoKey))]
      [] OTHER ->
            [pc |-> "done", log |-> onTransaction(c, l, err)]

UpdateCall(a, data, txArg, replace) ==
    LET id == parseId(a.id)
        k == key(id, a.ancestors, a.namespace)
        c == [NoCall EXCEPT !.op = "update", !.args = a, !.id = id, !.key = k, !.data = data,
                            !.txArg = txArg, !.replace = replace]
    IN  /\ CanCall(txArg)
        /\ IF replace
           THEN /\ call' = [c EXCEPT !.mode = "replace", !.saveTx = "empty",
                                     !.entity = ModelInstance(data, k, schema)]
                /\ pc' = "save.pre"
                /\ log' = <<>>
                /\ own' = NoTransaction
           ELSE IF txArg = "bad"
           THEN /\ call' = c
                /\ pc' = "done"
                /\ log' = <<Thrown(TransactionTypeError)>>
                /\ own' = NoTransaction
           ELSE IF txArg = "none"
           THEN /\ call' = [c EXCEPT !.mode = "own"]
                /\ pc' = "run"
                /\ log' = <<Issue("transaction", "ds", NoKey), Issue("run", "own", NoKey)>>
                /\ own' = [NoTransaction EXCEPT !.state = "created"]
           ELSE /\ call' = [c EXCEPT !.mode = "tx"]
                /\ pc' = "get"
                /\ log' = <<Issue("get", "tx", k)>>
                /\ own' = NoTransaction
        /\ UNCHANGED <<schema, store, tx>>

Update ==
    \E a \in KeyArgs, data \in LifecycleData, txArg \in {"none", "tx", "bad"}, replace \in BOOLEAN :
        UpdateCall(a, data, txArg, replace)

\* transaction.run() settles
RunSettled ==
    /\ pc = "run"
    /\ \/ /\ own' = [own EXCEPT !.state = "open"]
          /\ log' = Append(log, Issue("get", "own", call.key))
          /\ pc' = "get"
       \/ /\ own' = own
          /\ log' = onTransaction(call, log, BackendError)
          /\ pc' = "done"
    /\ UNCHANGED <<schema, store, tx, call>>

\* extend(false, entity, data) in getInTransaction.onEntity: `data` is the
\* parameter of onEntity, the fetched array, not the data update was called
\* with.  extend copies src[name] to target[name] for every own key of src
\* unless the value is the target itself; the array's only element is.
ExtendFetched(entity, fetched) ==
    IF \A i \in 1..Len(fetched) : fetched[i] = entity
    THEN entity
    ELSE [entity EXCEPT !.entityData = BagSet(@, "0", JSUndefined)]

\* the outcome of model.save(...) reaches the code that called it:
\* the caller of save, or onSuccess / onError of update's save
SaveSucceeded(c, l) ==
    IF c.op = "save"
    THEN [call |-> c, pc |-> "done", log |-> Append(l, Callback(NoError, c.entity))]
    ELSE LET c1 == [c EXCEPT !.entityUpdated = c.entity]
             r == UpdateDone(c1, l, NoError)
         IN  [call |-> c1, pc |-> r.pc, log |-> r.log]

SaveFailed(c, l, err) ==
    IF c.op = "save"
    THEN [call |-> c, pc |-> "done", log |-> Append(l, Callback(err, NoEntity))]
    ELSE LET c1 == [c EXCEPT !.error = err]
         IN  IF c.saveTx = "empty"
             THEN LET r == UpdateDone(c1, l, err)
                  IN  [call |-> c1, pc |-> r.pc, log |-> r.log]
             ELSE [call |-> c1, pc |-> "rollback",
                   log |-> Append(l, Issue("rollback", c.saveTx, NoKey))]

\* transaction.get(key) settles
GetSettled ==
    /\ pc = "get"
    /\ \/ LET c == [call EXCEPT !.error = BackendError]
              r == UpdateDone(c, log, BackendError)
          IN  /\ call' = c
              /\ pc' = r.pc
              /\ log' = r.log
       \/ IF call.key \notin DOMAIN store
          THEN /\ call' = [call EXCEPT !.error = NotFound]
               /\ pc' = "rollback"
               /\ log' = Append(log, Issue("rollback", call.mode, NoKey))
          ELSE LET fetched == [entityKey |-> call.key, entityData |-> store[call.key]]
                   entity == ExtendFetched(fetched, <<fetched>>)
               IN  /\ call' = [call EXCEPT
                                 !.entity = ModelInstance(entity.entityData, entity.entityKey, schema),
                                 !.saveTx = call.mode, !.i = 1]
                   /\ pc' = "save.pre"
                   /\ log' = log
    /\ UNCHANGED <<schema, store, tx, own>>

\* transaction.rollback() settles
RollbackSettled ==
    /\ pc = "rollback"
    /\ \/ \E r \in Resolutions :
            LET d == UpdateDone(call, log, r)
            IN  /\ pc' = d.pc
                /\ log' = d.log
                /\ IF call.mode = "own"
                   THEN own' = [own EXCEPT !.state = "rolledback"] /\ tx' = tx
                   ELSE tx' = [tx EXCEPT !.state = "rolledback"] /\ own' = own
       \/ /\ pc' = "done"
          /\ log' = Append(log, Unhandled(BackendError))
          /\ UNCHANGED <<tx, own>>
    /\ UNCHANGED <<schema, store, call>>

\* transaction.commit() of the transaction update opened settles
CommitSettled ==
    /\ pc = "commit"
    /\ \/ \E r \in Resolutions :
            /\ log' = onTransaction(call, log, r)
            /\ own' = IF own.state = "open" THEN [own EXCEPT !.state = "committed"] ELSE own
       \/ /\ log' = Append(log, Unhandled(BackendError))
          /\ own' = own
    /\ pc' = "done"
    /\ UNCHANGED <<schema, store, tx, call>>

\* ------------------------------------------------- Model.prototype.save
SavePres == QueuedPres(schema, "save")

SaveCall(a, data, txArg) ==
    /\ CanCall(txArg)
    /\ call' = [NoCall EXCEPT !.op = "save", !.args = a, !.id = a.id, !.data = data,
                              !.txArg = txArg,
                              !.key = key(a.id, a.ancestors, a.namespace),
                              !.saveTx = txArg,
                              !.entity = ModelInstance(data, key(a.id, a.ancestors, a.namespace),
                                                       schema)]
    /\ pc' = "save.pre"
    /\ log' = <<>>
    /\ own' = NoTransaction
    /\ UNCHANGED <<schema, store, tx>>

Save ==
    \E a \in KeyArgs, data \in LifecycleData, txArg \in {"none", "tx", "bad"} :
        SaveCall(a, data, txArg)

\* the next pre-save hook runs: the default middleware validates, a hook of
\* the user resolves or rejects
PreSave ==
    /\ pc = "save.pre"
    /\ call.i <= Len(SavePres)
    /\ LET fn == SavePres[call.i]
       IN  IF fn = ValidateMiddleware
           THEN LET m == defaultMiddleware(call.entity.entityData, schema)
                    c == [call EXCEPT !.entity.entityData = m.entityData, !.i = @ + 1]
                    l == Append(log, Hook("pre:save", fn, call.entity.entityKey, m.err))
                    f == SaveFailed(c, l, m.err)
                IN  IF m.rejected
                    THEN call' = f.call /\ pc' = f.pc /\ log' = f.log
                    ELSE call' = c /\ pc' = pc /\ log' = l
           ELSE \/ /\ call' = [call EXCEPT !.i = @ + 1]
                   /\ pc' = pc
                   /\ log' = Append(log, Hook("pre:save", fn, call.entity.entityKey, NoError))
                \/ LET f == SaveFailed(call,
                                       Append(log, Hook("pre:save", fn, call.entity.entityKey,
                                                        HookError(fn))),
                                       HookError(fn))
                   IN  call' = f.call /\ pc' = f.pc /\ log' = f.log
    /\ UNCHANGED <<schema, store, tx, own>>

\* the body of save, once every pre-save hook resolved
SaveBody ==
    /\ pc = "save.pre"
    /\ call.i > Len(SavePres)
    /\ LET transaction == IF call.saveTx = "empty" THEN "none" ELSE call.saveTx
           entityData == IF SchemaHasPath(schema, "modifiedOn")
                         THEN BagSet(call.entity.entityData, "modifiedOn", DateObj)
                         ELSE call.entity.entityData
           c == [call EXCEPT !.entity.entityData = entityData]
           entity == Event("save", IF transaction = "none" THEN "ds" ELSE transaction,
                           c.entity.entityKey,
                           toDatastore(entityData, ExcludedFromIndexes(schema)), NoError)
           s == SaveSucceeded(c, log \o <<entity, Issue("addHook", transaction, c.entity.entityKey)>>)
       IN  IF transaction = "none"
           THEN /\ call' = c
                /\ pc' = "ds.save"
                /\ log' = Append(log, entity)
                /\ UNCHANGED <<tx, own>>
           ELSE IF transaction = "bad"
           THEN /\ call' = c
                /\ pc' = "done"
                /\ \E thrown \in {Thrown(TransactionTypeError), Unhandled(TransactionTypeError)} :
                      log' = Append(log, thrown)
                /\ UNCHANGED <<tx, own>>
           ELSE /\ call' = s.call
                /\ pc' = s.pc
                /\ log' = s.log
                /\ IF transaction = "own"
                   THEN own' = addHook(hooksTransaction(own), "emit:save") /\ tx' = tx
                   ELSE tx' = addHook(hooksTransaction(tx), "emit:save") /\ own' = own
    /\ UNCHANGED <<schema, store>>

\* ds.save(entity) settles
DsSaveSettled ==
    /\ pc = "ds.save"
    /\ \/ LET s == SaveSucceeded(call, Append(log, Issue("emit:save", "entity", call.entity.entityKey)))
          IN  call' = s.call /\ pc' = s.pc /\ log' = s.log
       \/ LET f == SaveFailed(call, log, BackendError)
          IN  call' = f.call /\ pc' = f.pc /\ log' = f.log
    /\ UNCHANGED <<schema, store, tx, own>>

\* ---------------------------------------------------------- Model.delete
DeleteCall(a, txArg) ==
    LET id == parseId(a.id)
    IN  /\ CanCall(txArg)
        /\ call' = [NoCall EXCEPT !.op = "delete", !.args = a, !.id = id, !.txArg = txArg,
                                  !.mode = txArg,
                                  !.key = key(id, a.ancestors, a.namespace)]
        /\ tx' = IF txArg = "tx" THEN hooksTransaction(tx) ELSE tx
        /\ pc' = IF txArg = "bad" THEN "done" ELSE "delete.pre"
        /\ log' = IF txArg = "bad" THEN <<Thrown(TransactionTypeError)>> ELSE <<>>
        /\ own' = NoTransaction
        /\ UNCHANGED <<schema, store>>

Delete == \E a \in KeyArgs, txArg \in {"none", "tx", "bad"} : DeleteCall(a, txArg)

\* allDone(err, results)
allDone(l, err, response) ==
    Append(l, Event("cb", "caller", NoKey, IF IsTruthy(err) THEN <<>> ELSE response, err))

\* onEntitiesDeleted(err) of Model.deleteAll
onEntitiesDeleted(l, err) ==
    Append(l, Event("cb", "caller", NoKey,
                    IF IsTruthy(err) THEN <<>> ELSE <<Entry("success", BoolTrue)>>, err))

\* a variant whose series goes on to the next entity after a failure
deletedContinuing(c, l, err, response) ==
    IF c.op # "deleteAll"
    THEN [pc |-> "done", call |-> c, log |-> allDone(l, err, response)]
    ELSE IF c.multiple \/ c.at = Len(c.queue)
    THEN [pc |-> "done", call |-> c,
          log |-> onEntitiesDeleted(Append(l, Event("deleted", "deleteAll", c.key, <<>>, err)),
                                    err)]
    ELSE [pc |-> "delete.pre",
          call |-> [c EXCEPT !.at = @ + 1, !.key = c.queue[c.at + 1], !.i = 1, !.data = <<>>],
          log |-> Append(l, Event("deleted", "deleteAll", c.key, <<>>, err))]

\* cb of Model.delete: the caller's callback, or the one async.eachSeries
\* handed to deleteEntity, or onEntitiesDeleted itself for a batch
deleted(c, l, err, response) ==
    IF c.op # "deleteAll"
    THEN [pc |-> "done", call |-> c, log |-> allDone(l, err, response)]
    ELSE IF c.multiple \/ IsTruthy(err) \/ c.at = Len(c.queue)
    THEN [pc |-> "done", call |-> c,
          log |-> onEntitiesDeleted(Append(l, Event("deleted", "deleteAll", c.key, <<>>, err)),
                                    err)]
    ELSE [pc |-> "delete.pre",
          call |-> [c EXCEPT !.at = @ + 1, !.key = c.queue[c.at + 1], !.i = 1, !.data = <<>>],
          log |-> Append(l, Event("deleted", "deleteAll", c.key, <<>>, err))]

\* a pre-delete pipeline that goes on to the next hook after a failure
PreDeleteContinuing ==
    /\ pc = "delete.pre"
    /\ call.i <= Len(ModelPres("delete"))
    /\ \E err \in {NoError, HookError(ModelPres("delete")[call.i])} :
          log' = Append(log, Hook("pre:delete", ModelPres("delete")[call.i], call.key, err))
    /\ call' = [call EXCEPT !.i = @ + 1]
    /\ UNCHANGED <<schema, store, tx, own, pc>>

\* hooks.execPre('delete', ...): the next pre-delete hook calls next() or next(err)
PreDelete ==
    /\ pc = "delete.pre"
    /\ call.i <= Len(ModelPres("delete"))
    /\ LET fn == ModelPres("delete")[call.i]
       IN  \/ /\ call' = [call EXCEPT !.i = @ + 1]
              /\ pc' = pc
              /\ log' = Append(log, Hook("pre:delete", fn, call.key, NoError))
           \/ LET d == deleted(call, Append(log, Hook("pre:delete", fn, call.key,
                                                     HookError(fn))),
                                HookError(fn), <<>>)
              IN  call' = d.call /\ pc' = d.pc /\ log' = d.log
    /\ UNCHANGED <<schema, store, tx, own>>

\* an executeDelete that awaits the datastore whatever the transaction argument
executeDeleteAwaiting ==
    /\ pc = "delete.pre"
    /\ call.i > Len(ModelPres("delete"))
    /\ log' = Append(log, Issue("delete", "ds", call.key))
    /\ pc' = "ds.delete"
    /\ UNCHANGED <<schema, store, tx, own, call>>

\* executeDelete, once every pre-delete hook called next()
executeDelete ==
    /\ pc = "delete.pre"
    /\ call.i > Len(ModelPres("delete"))
    /\ IF call.txArg = "none"
       THEN /\ log' = Append(log, Issue("delete", "ds", call.key))
            /\ pc' = "ds.delete"
            /\ tx' = tx
       ELSE /\ log' = log \o <<Issue("delete", "tx", call.key),
                               Issue("addHook", "tx", call.key),
                               Event("cb", "caller", NoKey, <<>>, NoError)>>
            /\ pc' = "done"
            /\ tx' = addHook(tx, "execPost:delete")
    /\ UNCHANGED <<schema, store, own, call>>

\* what ds.delete hands to onDelete when it does not fail
DeleteResponses ==
    {<<>>, <<Entry("indexUpdates", Num("0"))>>, <<Entry("indexUpdates", Num("1"))>>}

\* an annotation that reports success whatever the index updates
WithSuccessAlways(apiRes) ==
    IF apiRes = <<>> THEN apiRes ELSE BagSet(apiRes, "success", BoolTrue)

\* apiRes.success = apiRes.indexUpdates > 0, when there is an apiRes
WithSuccess(apiRes) ==
    IF apiRes = <<>>
    THEN apiRes
    ELSE BagSet(apiRes, "success",
                IF BagGet(apiRes, "indexUpdates") = Num("0") THEN BoolFalse ELSE BoolTrue)

\* onDelete(err, apiRes)
onDelete ==
    /\ pc = "ds.delete"
    /\ \/ LET d == deleted(call, log, BackendError, <<>>)
          IN  call' = d.call /\ pc' = d.pc /\ log' = d.log
       \/ \E apiRes \in DeleteResponses :
            /\ log' = log
            /\ pc' = "delete.post"
            /\ call' = [call EXCEPT !.i = 1, !.data = WithSuccess(apiRes)]
    /\ UNCHANGED <<schema, store, tx, own>>

\* hooks.execPost('delete', ...), then allDone
PostDelete ==
    /\ pc = "delete.post"
    /\ IF call.i <= Len(ModelPosts("delete"))
       THEN LET fn == ModelPosts("delete")[call.i]
            IN  \/ /\ call' = [call EXCEPT !.i = @ + 1]
                   /\ pc' = pc
                   /\ log' = Append(log, Hook("post:delete", fn, call.key, NoError))
                \/ LET d == deleted(call, Append(log, Hook("post:delete", fn, call.key,
                                                          HookError(fn))),
                                     HookError(fn), <<>>)
                   IN  call' = d.call /\ pc' = d.pc /\ log' = d.log
       ELSE LET d == deleted(call, log, NoError, call.data)
            IN  call' = d.call /\ pc' = d.pc /\ log' = d.log
    /\ UNCHANGED <<schema, store, tx, own>>

\* ------------------------------------- the caller's own transaction handling
TxBegin ==
    /\ pc = "idle"
    /\ tx.state = "absent"
    /\ tx' = OpenTransaction
    /\ UNCHANGED <<schema, store, own, call, pc, log>>

\* transaction.commit().then(() => transaction.execPostHooks())
TxCommit ==
    /\ pc = "idle"
    /\ tx.state = "open"
    /\ \/ tx' = executePostHooks([tx EXCEPT !.state = "committed"])
       \/ tx' = [tx EXCEPT !.state = "rolledback"]
    /\ UNCHANGED <<schema, store, own, call, pc, log>>

TxRollback ==
    /\ pc = "idle"
    /\ tx.state = "open"
    /\ tx' = [tx EXCEPT !.state = "rolledback"]
    /\ UNCHANGED <<schema, store, own, call, pc, log>>

\* the caller's callback returned (or the call ended without one): the next
\* call starts from a clean slate
Return ==
    /\ pc = "done"
    /\ pc' = "idle"
    /\ call' = NoCall
    /\ log' = <<>>
    /\ own' = NoTransaction
    /\ UNCHANGED <<schema, store, tx>>

Next ==
    \/ Update
    \/ RunSettled
    \/ GetSettled
    \/ RollbackSettled
    \/ CommitSettled
    \/ Save
    \/ PreSave
    \/ SaveBody
    \/ DsSaveSettled
    \/ Delete
    \/ PreDelete
    \/ executeDelete
    \/ onDelete
    \/ PostDelete
    \/ TxBegin
    \/ TxCommit
    \/ TxRollback
    \/ Return

Spec == Init /\ [][Next]_vars

\* --------------------------------------------- validation gating a save
\* a schema whose checks the data bags below exercise one by one
ValidationPaths ==
    <<Entry("createdOn", [type |-> "datetime", optional |-> TRUE]),
      Entry("publishedOn", [type |-> "datetime", optional |-> TRUE]),
      Entry("age", [type |-> "int", optional |-> TRUE]),
      Entry("email", [type |-> "string", validate |-> "isEmail", optional |-> TRUE]),
      Entry("color", [values |-> {Str("red")}, optional |-> TRUE]),
      Entry("name", [type |-> "string", required |-> TRUE])>>

\* required fields that carry a second rule
RequiredPaths ==
    <<Entry("status", [values |-> {Str("draft")}, required |-> TRUE]),
      Entry("email", [type |-> "string", validate |-> "isEmail", required |-> TRUE,
                      optional |-> TRUE])>>

\* numeric fields
NumericPaths ==
    <<Entry("age", [type |-> "int", optional |-> TRUE]),
      Entry("price", [type |-> "double", optional |-> TRUE])>>

\* default options, explicitOnly false and true, and a schema with two
\* virtuals, one of them also declared
ValidationSchemas ==
    {SchemaNew(ValidationPaths, [validateBeforeSave |-> TRUE]),
     SchemaNew(ValidationPaths, [validateBeforeSave |-> TRUE, explicitOnly |-> FALSE]),
     SchemaNew(ValidationPaths, [validateBeforeSave |-> TRUE, explicitOnly |-> TRUE]),
     SchemaVirtual(SchemaVirtual(SchemaNew(ValidationPaths, [validateBeforeSave |-> TRUE]),
                                 "fullname"), "age"),
     SchemaNew(NumericPaths, [validateBeforeSave |-> TRUE, explicitOnly |-> FALSE]),
     SchemaNew(RequiredPaths, [validateBeforeSave |-> TRUE, explicitOnly |-> FALSE])}

\* for each field a value its checks accept and one they refuse; nick and
\* extra are not declared
ValidationEntries ==
    {Entry("createdOn", Str("2016-01-01")), Entry("createdOn", Str("2016-13-45")),
     Entry("createdOn", Num("3")),
     Entry("publishedOn", DateObj), Entry("publishedOn", Str("abc")),
     Entry("age", Num("3")), Entry("age", Str("abc")), Entry("age", Num("1.5")),
     Entry("age", IntObj("3")), Entry("age", IntObj("1.5")), Entry("age", IntObj("abc")),
     Entry("price", Num("3")), Entry("price", Num("1.5")), Entry("price", Str("abc")),
     Entry("price", DoubleObj("1.5")), Entry("price", DoubleObj("abc")),
     Entry("fullname", Str("John Snow")),
     Entry("email", Str("a@b.c")), Entry("email", Str("abc")), Entry("email", Str("  ")),
     Entry("status", Str("draft")), Entry("status", JSNull),
     Entry("color", Str("red")), Entry("color", Str("blue")),
     Entry("name", Str("John")), Entry("name", Str("  ")),
     Entry("nick", Str("J")),
     Entry("extra", Num("1"))}

\* the data bags: up to MaxBagLen entries, no key twice
ValidationBags ==
    {bag \in UNION {[1..n -> ValidationEntries] : n \in 1..MaxBagLen} :
        \A i, j \in 1..Len(bag) : bag[i].k = bag[j].k => i = j}

InitValidate ==
    /\ schema \in ValidationSchemas
    /\ store = <<>>
    /\ tx = NoTransaction
    /\ own = NoTransaction
    /\ call = NoCall
    /\ pc = "idle"
    /\ log = <<>>

\* entity.save(cb) of a new entity built from a data bag
SaveValidated ==
    \E data \in ValidationBags :
        SaveCall([id |-> Num("5"), ancestors |-> <<>>, namespace |-> JSUndefined], data, "none")

NextValidate ==
    \/ SaveValidated
    \/ PreSave
    \/ SaveBody
    \/ DsSaveSettled
    \/ Return

SpecValidate == InitValidate /\ [][NextValidate]_vars

\* -------------------------------------------- reads, queries and deleteAll
\* longest list of identifiers handed to get
MaxIds == 2

\* identifiers: numbers, numeric-looking strings, names
ListedIds == {Num("5"), Num("1"), Str("123"), Str("1234"), Str("abc"), Str("def")}
IdValues == ListedIds \cup {Str("1.5"), Num("1.5")}

IdLists ==
    {ArrayOf(l) : l \in {m \in UNION {[1..n -> ListedIds] : n \in 1..MaxIds} :
                            \A i, j \in 1..Len(m) : m[i] = m[j] => i = j}}

StoreOf(ids) == [k \in {key(id, <<>>, JSUndefined) : id \in ids} |-> StoredData]

QueryStores == {StoreOf({}), StoreOf({Num("5"), Str("abc")}), StoreOf(ListedIds)}

QueryRegistrations ==
    {<<>>,
     <<Registration("post", "delete", "postDeleteA")>>,
     <<Registration("pre", "delete", "preDeleteA"),
       Registration("post", "delete", "postDeleteA"),
       Registration("pre", "findOne", "preFindOneA"),
       Registration("pre", "findOne", "preFindOneB"),
       Registration("post", "findOne", "postFindOneA")>>}

QuerySchemas ==
    {Register(SchemaNew(LifecyclePaths, [explicitOnly |-> FALSE]), regs, 1) :
        regs \in QueryRegistrations}

InitQuery ==
    /\ schema \in QuerySchemas
    /\ store \in QueryStores
    /\ tx = NoTransaction
    /\ own = NoTransaction
    /\ call = NoCall
    /\ pc = "idle"
    /\ log = <<>>

\* a then-handler threw: entity.map is not a function
TypeError == ErrorOf("TypeError", "", "", "")

\* cb(err) / cb(null, response) of a read: one entity or a sequence of them
Respond(err, multiple, entities) ==
    [ev |-> "cb", on |-> "caller", key |-> NoKey, data |-> <<>>, err |-> err,
     multiple |-> multiple, entities |-> entities]

\* the orders a backend may hand a set of things back in
Orders(S) == {l \in [1..Cardinality(S) -> S] : \A i, j \in 1..Cardinality(S) : l[i] = l[j] => i = j}

\* ------------------------------------------------------------- Model.get
GetOptions == {<<>>, <<Entry("preserveOrder", BoolTrue)>>}

GetCall(id, txArg, options) ==
    LET pid == parseId(id)
        k == key(pid, <<>>, JSUndefined)
    IN  /\ CanCall(txArg)
        /\ call' = [NoCall EXCEPT !.op = "get", !.args = [NoArgs EXCEPT !.id = id], !.id = pid,
                                  !.key = k, !.txArg = txArg, !.multiple = IsArray(id),
                                  !.options = options]
        /\ IF txArg = "bad"
           THEN pc' = "done" /\ log' = <<Thrown(TransactionTypeError)>>
           ELSE pc' = "ds.get" /\ log' = <<Issue("get", IF txArg = "tx" THEN "tx" ELSE "ds", k)>>
        /\ own' = NoTransaction
        /\ UNCHANGED <<schema, store, tx>>

Get ==
    \E id \in IdValues \cup IdLists, txArg \in {"none", "tx", "bad"}, options \in GetOptions :
        GetCall(id, txArg, options)

\* entityKey.id: the numeric identifier of a key, undefined for a named key
KeyId(entityKey) ==
    LET last == entityKey.path[Len(entityKey.path)]
    IN  IF last.t = "number" THEN last ELSE JSUndefined

\* array.indexOf(v)
IndexOf(items, v) ==
    IF \E i \in 1..Len(items) : items[i] = v
    THEN (CHOOSE i \in 1..Len(items) : items[i] = v /\ \A j \in 1..(i - 1) : items[j] # v) - 1
    ELSE -1

\* entity.sort((a, b) => id.indexOf(a.entityKey.id) - id.indexOf(b.entityKey.id))
RECURSIVE SortByIdIndex(_, _)
SortByIdIndex(entities, id) ==
    IF Len(entities) <= 1
    THEN entities
    ELSE LET e == entities[Len(entities)]
             head == SortByIdIndex(SubSeq(entities, 1, Len(entities) - 1), id)
             rank(x) == IndexOf(id.items, KeyId(x.entityKey))
         IN  SelectSeq(head, LAMBDA x : rank(x) <= rank(e)) \o <<e>>
                \o SelectSeq(head, LAMBDA x : rank(x) > rank(e))

\* onEntity(data) of Model.get, data[0] being one entity
GetOneEntity(c, l, k) ==
    IF c.multiple
    THEN Append(l, Unhandled(TypeError))
    ELSE Append(l, Respond(NoError, FALSE, <<ModelInstance(store[k], k, schema)>>))

\* onEntity(data) of Model.get, data[0] being an array of entities
GetEntities(c, l, keys) ==
    LET entity == [i \in 1..Len(keys) |-> ModelInstance(store[keys[i]], keys[i], schema)]
    IN  Append(l, Respond(NoError, TRUE,
                          IF BagHas(c.options, "preserveOrder")
                          THEN SortByIdIndex(entity, c.id)
                          ELSE entity))

\* ds.get(key) / transaction.get(key) settles: onEntity or onError
DsGetSettled ==
    /\ pc = "ds.get"
    /\ \/ log' = Append(log, Respond(BackendError, FALSE, <<>>))
       \/ IF IsArray(call.id)
          THEN LET found == {call.key[i] : i \in 1..Len(call.key)} \cap DOMAIN store
               IN  IF found = {}
                   THEN log' = Append(log, Respond(NotFound, FALSE, <<>>))
                   ELSE \E keys \in Orders(found) : log' = GetEntities(call, log, keys)
          ELSE IF call.key \notin DOMAIN store
               THEN log' = Append(log, Respond(NotFound, FALSE, <<>>))
               ELSE log' = GetOneEntity(call, log, call.key)
    /\ pc' = "done"
    /\ UNCHANGED <<schema, store, tx, own, call>>

\* ------------------------------------------------------- Model.deleteAll
\* what ds.runQuery may answer with: up to MaxIds of the stored entities, in
\* the order the backend chose
QueryResults ==
    UNION {Orders(S) : S \in {T \in SUBSET DOMAIN store : Cardinality(T) <= MaxIds}}

\* _this.hooks._pres.hasOwnProperty('delete') || _this.hooks._posts.hasOwnProperty('delete')
onlyPreDeleteHooks == ModelPres("delete") # <<>>
hasDeleteHooks == ModelPres("delete") # <<>> \/ ModelPosts("delete") # <<>>

DeleteAll ==
    /\ CanCall("none")
    /\ call' = [NoCall EXCEPT !.op = "deleteAll"]
    /\ pc' = "deleteAll.runQuery"
    /\ log' = <<Issue("runQuery", "ds", NoKey)>>
    /\ own' = NoTransaction
    /\ UNCHANGED <<schema, store, tx>>

\* the callback deleteAll handed to ds.runQuery
DeleteAllQuerySettled ==
    /\ pc = "deleteAll.runQuery"
    /\ \/ /\ log' = Append(log, Event("cb", "caller", NoKey, <<>>, BackendError))
          /\ pc' = "done"
          /\ call' = call
       \/ \E entities \in QueryResults :
            LET answered == Append(log, Event("entities", "ds", entities, <<>>, NoError))
            IN  IF hasDeleteHooks
                THEN IF entities = <<>>
                     THEN /\ log' = onEntitiesDeleted(answered, NoError)
                          /\ pc' = "done"
                          /\ call' = [call EXCEPT !.queue = entities]
                     ELSE /\ log' = answered
                          /\ pc' = "delete.pre"
                          /\ call' = [call EXCEPT !.queue = entities, !.at = 1,
                                                  !.id = parseId(JSNull), !.key = entities[1]]
                ELSE /\ log' = answered
                     /\ pc' = "delete.pre"
                     /\ call' = [call EXCEPT !.queue = entities, !.multiple = TRUE,
                                             !.id = parseId(JSNull), !.key = entities]
    /\ UNCHANGED <<schema, store, tx, own>>

\* ---------------------------------------------------------- Model.findOne
\* a plain object with its own properties in insertion order
ObjectOf(bag) == [t |-> "object", c |-> "Object", x |-> "[object Object]", bag |-> bag]
\* typeof v === 'object' && v !== null
IsObjectLike(v) == v.t = "object" /\ v # JSNull
\* is.object(v)
IsObject(v) == v.t = "object" /\ v.c = "Object"
\* Object.keys(v) with the values under them
OwnEntries(v) == IF v.c = "Object" THEN v.bag ELSE <<>>

BadRequest(message) == ErrorOf("BadRequest", "400", "", message)

\* initQuery(self, namespace) without a namespace
initQuery == [NoQuery EXCEPT !.kind = entityKind]
Filter(property, op, value) == [property |-> property, op |-> op, value |-> value]

FindOneParams ==
    {ObjectOf(<<>>),
     ObjectOf(<<Entry("name", Str("John"))>>),
     ObjectOf(<<Entry("name", Str("John")), Entry("age", Num("1"))>>),
     Str("abc"), JSUndefined, JSNull, ArrayObj}

FindOneCall(params) ==
    /\ CanCall("none")
    /\ IF ~IsObject(params)
       THEN /\ call' = [NoCall EXCEPT !.op = "findOne", !.params = params]
            /\ pc' = "done"
            /\ log' = <<Callback(BadRequest("Params have to be passed as object"), NoEntity)>>
       ELSE LET entries == OwnEntries(params)
                query == [initQuery EXCEPT
                             !.limit = Num("1"),
                             !.filters = [i \in 1..Len(entries) |->
                                             Filter(entries[i].k, "=", entries[i].v)]]
            IN  /\ call' = [NoCall EXCEPT !.op = "findOne", !.params = params, !.query = query]
                /\ IF ModelPres("findOne") = <<>>
                   THEN pc' = "findOne.runQuery" /\ log' = <<Issue("runQuery", "ds", NoKey)>>
                   ELSE pc' = "findOne.pre" /\ log' = <<>>
    /\ own' = NoTransaction
    /\ UNCHANGED <<schema, store, tx>>

FindOne == \E params \in FindOneParams : FindOneCall(params)

\* hooks.execPre('findOne', _this, () => {...}): the next pre hook calls
\* next() or next(err); the function handed to execPre takes no argument and
\* runs the query
PreFindOne ==
    /\ pc = "findOne.pre"
    /\ LET fn == ModelPres("findOne")[call.i]
       IN  \/ /\ call.i < Len(ModelPres("findOne"))
              /\ call' = [call EXCEPT !.i = @ + 1]
              /\ pc' = pc
              /\ log' = Append(log, Hook("pre:findOne", fn, NoKey, NoError))
           \/ /\ call.i = Len(ModelPres("findOne"))
              /\ call' = call
              /\ pc' = "findOne.runQuery"
              /\ log' = log \o <<Hook("pre:findOne", fn, NoKey, NoError),
                                  Issue("runQuery", "ds", NoKey)>>
           \/ /\ call' = call
              /\ pc' = "findOne.runQuery"
              /\ log' = log \o <<Hook("pre:findOne", fn, NoKey, HookError(fn)),
                                  Issue("runQuery", "ds", NoKey)>>
    /\ UNCHANGED <<schema, store, tx, own>>

\* the callback findOne handed to ds.runQuery
FindOneQuerySettled ==
    /\ pc = "findOne.runQuery"
    /\ \/ /\ log' = Append(log, Callback(BackendError, NoEntity))
          /\ pc' = "done"
          /\ call' = call
       \/ \E entities \in {<<>>} \cup {<<k>> : k \in DOMAIN store} :
            LET answered == Append(log, Event("entities", "ds", entities, <<>>, NoError))
                entity == ModelInstance(store[entities[1]], entities[1], schema)
            IN  IF Len(entities) = 0
                THEN /\ log' = Append(answered, Callback(NotFound, NoEntity))
                     /\ pc' = "done"
                     /\ call' = call
                ELSE IF ModelPosts("findOne") = <<>>
                THEN /\ log' = Append(answered, Callback(NoError, entity))
                     /\ pc' = "done"
                     /\ call' = [call EXCEPT !.entity = entity]
                ELSE /\ log' = answered
                     /\ pc' = "findOne.post"
                     /\ call' = [call EXCEPT !.entity = entity, !.i = 1]
    /\ UNCHANGED <<schema, store, tx, own>>

\* hooks.execPost('findOne', null, [], () => cb(null, entity))
PostFindOne ==
    /\ pc = "findOne.post"
    /\ LET fn == ModelPosts("findOne")[call.i]
       IN  \/ /\ call.i < Len(ModelPosts("findOne"))
              /\ call' = [call EXCEPT !.i = @ + 1]
              /\ pc' = pc
              /\ log' = Append(log, Hook("post:findOne", fn, NoKey, NoError))
           \/ \E err \in {NoError, HookError(fn)} :
                /\ IsTruthy(err) \/ call.i = Len(ModelPosts("findOne"))
                /\ call' = call
                /\ pc' = "done"
                /\ log' = log \o <<Hook("post:findOne", fn, NoKey, err),
                                    Callback(NoError, call.entity)>>
    /\ UNCHANGED <<schema, store, tx, own>>

\* ------------------------------------------------------- Model.findAround
\* the counts after / before are set to
Counts == {Num("0"), Num("1"), Num("3")}

FindAroundOptions ==
    {Str("abc"), ObjectOf(<<>>)}
        \cup {ObjectOf(<<Entry(side, c)>>) : side \in {"after", "before"}, c \in Counts}
        \cup {ObjectOf(<<Entry("after", c), Entry("before", d)>>) : c, d \in Counts}

\* what is passed before the callback: property, value and maybe options
FindAroundArgs ==
    {<<Str("age"), Num("5")>>} \cup {<<Str("age"), Num("5"), o>> : o \in FindAroundOptions}

\* a check of the arguments that lets options with both after and before pass
findAroundErrorNeitherOnly(args) ==
    IF Len(args) < 3
    THEN "Argument missing"
    ELSE IF ~IsObject(args[3])
    THEN "Options pased has to be an object"
    ELSE IF ~BagHas(args[3].bag, "after") /\ ~BagHas(args[3].bag, "before")
    THEN "You must set \"after\" or \"before\" in options"
    ELSE ""

\* the message of the 400 error findAround answers with, "" when it goes on
findAroundError(args) ==
    IF Len(args) < 3
    THEN "Argument missing"
    ELSE IF ~IsObject(args[3])
    THEN "Options pased has to be an object"
    ELSE IF ~BagHas(args[3].bag, "after") /\ ~BagHas(args[3].bag, "before")
    THEN "You must set \"after\" or \"before\" in options"
    ELSE IF BagHas(args[3].bag, "after") /\ BagHas(args[3].bag, "before")
    THEN "You must chose between after or before"
    ELSE ""

FindAroundCall(args) ==
    /\ CanCall("none")
    /\ IF findAroundError(args) # ""
       THEN /\ call' = [NoCall EXCEPT !.op = "findAround",
                                      !.params = IF Len(args) < 3 THEN JSUndefined ELSE args[3]]
            /\ pc' = "done"
            /\ log' = <<Callback(BadRequest(findAroundError(args)), NoEntity)>>
       ELSE LET after == BagGet(args[3].bag, "after")
                before == BagGet(args[3].bag, "before")
                query == [initQuery EXCEPT
                             !.filters = <<Filter(args[1].x, IF Truthy(after) THEN ">" ELSE "<",
                                                  args[2])>>,
                             !.order = <<[property |-> args[1].x,
                                          descending |-> ~Truthy(after)]>>,
                             !.limit = IF Truthy(after) THEN after ELSE before]
            IN  /\ call' = [NoCall EXCEPT !.op = "findAround", !.params = args[3],
                                          !.query = query]
                /\ pc' = "findAround.runQuery"
                /\ log' = <<Issue("runQuery", "ds", NoKey)>>
    /\ own' = NoTransaction
    /\ UNCHANGED <<schema, store, tx>>

FindAround == \E args \in FindAroundArgs : FindAroundCall(args)

\* the callback findAround handed to ds.runQuery
FindAroundQuerySettled ==
    /\ pc = "findAround.runQuery"
    /\ \/ log' = Append(log, Respond(BackendError, FALSE, <<>>))
       \/ \E entities \in QueryResults :
            log' = Append(log, Respond(NoError, TRUE,
                                       [i \in 1..Len(entities) |->
                                           [entityKey |-> entities[i],
                                            entityData |-> store[entities[i]]]]))
    /\ pc' = "done"
    /\ UNCHANGED <<schema, store, tx, own, call>>

\* ------------------------------------------- Model.query().run, Model.list
\* ds.NO_MORE_RESULTS
NO_MORE_RESULTS == Str("NO_MORE_RESULTS")

\* the info a backend hands over with the entities of a query
QueryInfos ==
    {<<Entry("moreResults", NO_MORE_RESULTS), Entry("endCursor", Str("abc"))>>,
     <<Entry("moreResults", Str("MORE_RESULTS_AFTER_LIMIT")), Entry("endCursor", Str("abc"))>>,
     <<Entry("moreResults", Str("MORE_RESULTS_AFTER_CURSOR")), Entry("endCursor", Str("def"))>>}

\* a response that always carries the cursor
QueryResponseWithCursor(entities, info) ==
    <<Entry("entities", entities), Entry("nextPageCursor", BagGet(info, "endCursor"))>>

\* the response built from the entities and the info of a query
QueryResponse(entities, info) ==
    IF BagGet(info, "moreResults") # NO_MORE_RESULTS
    THEN <<Entry("entities", entities), Entry("nextPageCursor", BagGet(info, "endCursor"))>>
    ELSE <<Entry("entities", entities)>>

\* the entity handed to the caller for a stored entity
fromDatastore(k) == [entityKey |-> k, entityData |-> store[k]]

\* the callbacks query.run and list hand to ds.runQuery
QueryAnswered(l, err, entities, info) ==
    IF IsTruthy(err)
    THEN Append(l, Event("cb", "caller", NoKey, <<>>, err))
    ELSE l \o <<Event("entities", "ds", entities, info, NoError),
                Event("cb", "caller", NoKey,
                      QueryResponse([i \in 1..Len(entities) |-> fromDatastore(entities[i])],
                                    info),
                      NoError)>>

\* Model.query().run(cb)
QueryRun ==
    /\ CanCall("none")
    /\ call' = [NoCall EXCEPT !.op = "query.run", !.query = initQuery]
    /\ pc' = "query.runQuery"
    /\ log' = <<Issue("runQuery", "ds", NoKey)>>
    /\ own' = NoTransaction
    /\ UNCHANGED <<schema, store, tx>>

onQuery ==
    /\ pc = "query.runQuery"
    /\ \/ log' = QueryAnswered(log, BackendError, <<>>, <<>>)
       \/ \E entities \in QueryResults, info \in QueryInfos :
            log' = QueryAnswered(log, NoError, entities, info)
    /\ pc' = "done"
    /\ UNCHANGED <<schema, store, tx, own, call>>

\* Model.list(cb)
List ==
    /\ CanCall("none")
    /\ call' = [NoCall EXCEPT !.op = "list", !.query = initQuery]
    /\ pc' = "list.runQuery"
    /\ log' = <<Issue("runQuery", "ds", NoKey)>>
    /\ own' = NoTransaction
    /\ UNCHANGED <<schema, store, tx>>

ListQuerySettled ==
    /\ pc = "list.runQuery"
    /\ \/ log' = QueryAnswered(log, BackendError, <<>>, <<>>)
       \/ \E entities \in QueryResults, info \in QueryInfos :
            log' = QueryAnswered(log, NoError, entities, info)
    /\ pc' = "done"
    /\ UNCHANGED <<schema, store, tx, own, call>>

\* -------------------------------------------------------------- Model.key
AncestorPaths ==
    {<<>>,
     <<Str("Parent"), Num("1234")>>,
     <<Str("GrandParent"), Str("a"), Str("Parent"), Num("1")>>}

Namespaces == {JSUndefined, JSNull, Str("ns"), Str("")}

\* Model.key(ids, ancestors, namespace) called by the application
KeyCall(ids, ancestors, namespace) ==
    /\ CanCall("none")
    /\ call' = [NoCall EXCEPT !.op = "key",
                              !.args = [id |-> ids, ancestors |-> ancestors,
                                        namespace |-> namespace],
                              !.multiple = IsArray(ids),
                              !.key = key(ids, ancestors, namespace)]
    /\ pc' = "done"
    /\ log' = <<>>
    /\ own' = NoTransaction
    /\ UNCHANGED <<schema, store, tx>>

Key ==
    \E ids \in IdValues \cup IdLists \cup {JSUndefined, JSNull},
       ancestors \in AncestorPaths, namespace \in Namespaces :
        KeyCall(ids, ancestors, namespace)

NextQuery ==
    \/ QueryRun
    \/ onQuery
    \/ List
    \/ ListQuerySettled
    \/ Key
    \/ FindOne
    \/ PreFindOne
    \/ FindOneQuerySettled
    \/ PostFindOne
    \/ FindAround
    \/ FindAroundQuerySettled
    \/ TxBegin
    \/ Get
    \/ DsGetSettled
    \/ DeleteAll
    \/ DeleteAllQuerySettled
    \/ PreDelete
    \/ executeDelete
    \/ onDelete
    \/ PostDelete
    \/ Return

SpecQuery == InitQuery /\ [][NextQuery]_vars

\* ================================================================ claims
Events(ev) == {i \in 1..Len(log) : log[i].ev = ev}
EventsOn(ev, on) == {i \in 1..Len(log) : log[i].ev = ev /\ log[i].on = on}
\* the call ended: the callback was invoked, or the returned promise rejected
Outcomes == {i \in 1..Len(log) : log[i].ev \in {"cb", "unhandled"}}
Failures == {i \in Outcomes : IsTruthy(log[i].err)}
UpdateEnded == pc = "done" /\ call.op = "update"
\* update works on a transaction (no options.replace) that has begun
UpdateInTransaction == call.op = "update" /\ call.mode \in {"own", "tx"} /\ Events("get") # {}

\* C1: when Model.update (no options.replace, no transaction supplied) ends,
\* the transaction it opened has received exactly one terminating call, commit
\* or rollback, never both and never neither.
C1_ExactlyOneTermination ==
    (UpdateEnded /\ call.mode = "own" /\ UpdateInTransaction)
        => Cardinality(EventsOn("commit", "own") \cup EventsOn("rollback", "own")) = 1

\* C2: in Model.update without options.replace, every failure delivered to the
\* caller after a failed fetch, save or commit is preceded by a rollback.
C2_RollbackBeforeError ==
    (UpdateEnded /\ UpdateInTransaction)
        => \A i \in Failures : \E j \in Events("rollback") : j < i

\* C3: Model.update without options.replace, when the backend returns no entity
\* for the key, delivers the NotFound error (404), issues a rollback and issues
\* no save.
C3_NotFoundDelivered ==
    (UpdateEnded /\ UpdateInTransaction /\ call.error = NotFound)
        => /\ \E i \in Events("cb") : log[i].err = NotFound
           /\ Events("rollback") # {}
           /\ Events("save") = {}

\* the value the saved entity carries for a field, undefined when it has none
SavedValue(saved, name) ==
    IF \E i \in 1..Len(saved) : saved[i].name = name
    THEN saved[CHOOSE i \in 1..Len(saved) : saved[i].name = name].value
    ELSE JSUndefined

\* C4: in Model.update without options.replace, when the entity exists, the data
\* saved is the shallow merge of the new data over the fetched entity: new fields
\* win, fetched fields the new data does not mention survive.
C4_SavedIsShallowMerge ==
    (UpdateInTransaction /\ call.key \in DOMAIN store)
        => \A i \in Events("save") :
              /\ \A j \in 1..Len(call.data) :
                    SavedValue(log[i].data, call.data[j].k) = call.data[j].v
              /\ \A j \in 1..Len(store[call.key]) :
                    ~BagHas(call.data, store[call.key][j].k)
                        => SavedValue(log[i].data, store[call.key][j].k) = store[call.key][j].v

\* ---------------------------------------------------- update, replace mode
UpdateReplacing == call.op = "update" /\ call.mode = "replace"

\* the key the arguments (id, ancestors, namespace) of the call spell out
KeyOfArgs ==
    [path |-> call.args.ancestors \o <<entityKind, parseId(call.args.id)>>,
     namespace |-> call.args.namespace]

NoFetchNoTransaction ==
    /\ Events("get") = {}
    /\ Events("transaction") = {}
    /\ Events("run") = {}
    /\ Events("commit") = {}
    /\ Events("rollback") = {}
    /\ own.state = "absent"

SavedHas(saved, name) == \E i \in 1..Len(saved) : saved[i].name = name

\* the saved fields, as a data bag
SavedBag(saved) == [i \in 1..Len(saved) |-> Entry(saved[i].name, saved[i].value)]

RemovedByValidation(name) ==
    schema.options["validateBeforeSave"] = TRUE /\ name \in schema.virtuals

\* a declared field the entity fills in when the caller's data lacks it
FilledIn(name) ==
    /\ SchemaHasPath(schema, name)
    /\ ~BagHas(call.data, name)
    /\ ~(Has(SchemaPath(schema, name), "optional") /\ SchemaPath(schema, name).optional = TRUE)

SavesCallerData == call.op = "save" \/ UpdateReplacing

FailsValidation ==
    ~validate(BuildEntityData(call.data, schema), schema).success

ValidationErrors == {"ValidationError", "ValidatorError", "Error", "Object"}

\* C6: when validateBeforeSave is enabled and the entity's data fails
\* validation, no save is issued on the datastore or on a transaction, no
\* pre-save hook registered after the default middleware runs, and the call
\* ends with a validation error delivered to the caller.
C6_InvalidNeverSaved ==
    (SavesCallerData /\ schema.options["validateBeforeSave"] = TRUE /\ FailsValidation)
        => /\ Events("save") = {}
           /\ Events("addHook") = {}
           /\ pc \notin {"ds.save", "commit"}
           /\ \A i \in Events("pre:save") : log[i].on = ValidateMiddleware
           /\ pc = "done" =>
                 \E i \in Events("cb") : log[i].err.class \in ValidationErrors

\* a save with a transaction ended on a validation error
C6_SaveRejected ==
    /\ call.op = "save"
    /\ call.txArg = "tx"
    /\ pc = "done"
    /\ schema.options["validateBeforeSave"] = TRUE
    /\ FailsValidation
    /\ \E i \in Events("cb") : log[i].err.class = "ValidationError"

\* ------------------------------------------------------------------ delete
FailedPreDelete == {i \in Events("pre:delete") : log[i].err # NoError}

\* C8: once a pre-delete hook of Model.delete failed, no delete is issued on the
\* datastore or on the transaction, no post-delete hook runs or is queued, and
\* the call has ended with the hook's failure delivered to the caller.
C8_PreDeleteFailureStops ==
    (call.op = "delete" /\ FailedPreDelete # {})
        => /\ Events("delete") = {}
           /\ Events("post:delete") = {}
           /\ Events("addHook") = {}
           /\ pc = "done"
           /\ Cardinality(FailedPreDelete) = 1
           /\ \A h \in FailedPreDelete :
                 /\ Cardinality(Events("cb")) = 1
                 /\ \A i \in Events("cb") : i > h /\ log[i].err = log[h].err
                 /\ \A i \in Events("pre:delete") : i <= h

\* the second pre-delete hook failed in a delete called with a transaction
C8_SecondPreDeleteFailed ==
    /\ call.op = "delete"
    /\ call.txArg = "tx"
    /\ pc = "done"
    /\ Cardinality(Events("pre:delete")) = 2
    /\ FailedPreDelete # {}

\* --------------------------------------------- calls made with a transaction
Writes == Events("save") \cup Events("delete")

\* C9: a Model.delete or save called with a transaction never runs its
\* post-hooks ('save' emission, post-delete hooks) and never waits for the
\* backend; when it hands back to the caller it has issued its write on the
\* transaction and appended one post-hook to the transaction's queue, which
\* stays unexecuted while the transaction is open.
C9_TransactionDefersPostHooks ==
    (call.op \in {"delete", "save"} /\ call.txArg = "tx")
        => /\ Events("emit:save") = {}
           /\ Events("post:delete") = {}
           /\ pc \notin {"ds.save", "ds.delete", "delete.post"}
           /\ \A i \in Writes : log[i].on = "tx"
           /\ tx.state = "open" /\ tx.executed = <<>>
           /\ \A c \in Events("cb") :
                 log[c].err = NoError
                    => /\ Cardinality({i \in Writes : i < c}) = 1
                       /\ Cardinality({i \in Events("addHook") : i < c /\ log[i].on = "tx"}) = 1
                       /\ Len(tx.post) > 0
                       /\ tx.post[Len(tx.post)] =
                             (IF call.op = "save" THEN "emit:save" ELSE "execPost:delete")

\* a save with a transaction returned after a delete with the same transaction:
\* both post-hooks wait in the queue
C9_BothQueued ==
    /\ call.op = "save"
    /\ call.txArg = "tx"
    /\ pc = "done"
    /\ \E i \in Events("cb") : log[i].err = NoError
    /\ tx.post = <<"execPost:delete", "emit:save">>
    /\ tx.executed = <<>>

\* C10: the post-hooks queued on a transaction have all been executed once it
\* is committed and none has been when it is rolled back; this holds of the
\* caller's transaction and of the transaction Model.update opened.
C10_QueuedPostHooksRunOnCommit ==
    \A t \in {tx, own} :
        /\ t.state = "committed" => t.executed = t.post
        /\ t.state = "rolledback" => t.executed = <<>>

\* ------------------------------------------------ the error validation surfaces
\* the data bag validate iterates over
EntityData == BuildEntityData(call.data, schema)

\* what the checks of one field report, on their own
FieldErrors(k) == ValidateKey([errors |-> <<>>, data |-> EntityData], k, schema).errors

\* the invalid fields, in data-bag order
InvalidFields == SelectSeq(BagKeys(EntityData), LAMBDA k : FieldErrors(k) # <<>>)

ValidationGatedSave ==
    /\ call.op = "save"
    /\ pc = "done"
    /\ schema.options["validateBeforeSave"] = TRUE
    /\ InvalidFields # <<>>

\* C7 as stated: when validation gates a save and fields are invalid, the
\* error delivered to the caller is the error of the earliest invalid field in
\* data-bag order.
C7_EarliestInvalidField ==
    ValidationGatedSave
        => \A i \in Events("cb") : log[i].err.field = InvalidFields[1]

\* every error of the pass with the key of the errors object it is recorded
\* under, in the order the pass produces them
RECURSIVE RecordedFrom(_, _)
RecordedFrom(keys, i) ==
    IF i > Len(keys) THEN <<>> ELSE FieldErrors(keys[i]) \o RecordedFrom(keys, i + 1)

Recorded == RecordedFrom(BagKeys(EntityData), 1)

\* the last error recorded under the key the first error was recorded under
LastUnderFirstKey ==
    LET same == {j \in 1..Len(Recorded) : Recorded[j].k = Recorded[1].k}
    IN  Recorded[CHOOSE j \in same : \A m \in same : m <= j].v

\* C7: when validation gates a save and fields are invalid, the one error
\* delivered to the caller is the entry under the first key of the errors
\* object.  Errors are recorded under the field's name, except wrong datetime
\* formats (all under "datetime") and undeclared properties (all under
\* "properties"), and a later error replaces an earlier one under the same
\* key: the error delivered is the last one recorded under the key of the
\* earliest error.
C7_FirstErrorsEntry ==
    ValidationGatedSave
        => /\ Events("save") = {}
           /\ Cardinality(Events("cb")) = 1
           /\ \A i \in Events("cb") : log[i].err = LastUnderFirstKey

\* two fields hold a wrong datetime and the error delivered names the later one
C7_LaterDatetimeDelivered ==
    /\ ValidationGatedSave
    /\ Len(InvalidFields) >= 2
    /\ \E i \in Events("cb") :
          log[i].err.check = "datetime" /\ log[i].err.field # InvalidFields[1]

\* ------------------------------------------------------------------- get
\* the keys the identifier(s) of the call ask for, one per identifier
RequestedKeys ==
    IF IsArray(call.args.id)
    THEN [i \in 1..Len(call.args.id.items) |-> getKey(call.args.id.items[i], <<>>, JSUndefined)]
    ELSE <<getKey(call.args.id, <<>>, JSUndefined)>>

RequestedFound == {RequestedKeys[i] : i \in 1..Len(RequestedKeys)} \cap DOMAIN store

\* a get that ended and whose backend read did not fail
GetAnswered ==
    /\ call.op = "get"
    /\ pc = "done"
    /\ call.txArg # "bad"
    /\ \A i \in Events("cb") : log[i].err # BackendError

\* C12: Model.get delivers NotFound (404) exactly when the backend finds none
\* of the requested entities; otherwise it delivers success, with one entity
\* for a scalar identifier and with the sequence of the entities found for a
\* sequence of identifiers.
C12_GetDeliversFound ==
    GetAnswered
        => IF RequestedFound = {}
           THEN \E i \in Events("cb") : log[i].err = NotFound
           ELSE \E i \in Events("cb") :
                   /\ log[i].err = NoError
                   /\ log[i].multiple = IsArray(call.args.id)
                   /\ {log[i].entities[j].entityKey : j \in 1..Len(log[i].entities)} = RequestedFound
                   /\ Len(log[i].entities) = Cardinality(RequestedFound)

\* the position in the identifier list of the identifier an entity was asked by
PositionAsked(entity) ==
    CHOOSE i \in 1..Len(RequestedKeys) : RequestedKeys[i] = entity.entityKey

\* C13: with options.preserveOrder, the entities Model.get returns for a list
\* of identifiers are in the order of their identifiers in the list, whatever
\* the identifiers are and whatever order the backend answered in.
C13_PreserveOrderFollowsIds ==
    (GetAnswered /\ IsArray(call.args.id) /\ BagHas(call.options, "preserveOrder"))
        => \A c \in Events("cb") :
              log[c].err = NoError
                 => \A i, j \in 1..Len(log[c].entities) :
                       i < j => PositionAsked(log[c].entities[i]) < PositionAsked(log[c].entities[j])

\* C14: Model.get uses batch mode for every sequence of identifiers, of one
\* element too: the key it reads is a sequence of keys, one per identifier in
\* input order; for a scalar identifier it is a single key.
C14_SequenceMeansBatch ==
    call.op = "get"
        => IF IsArray(call.args.id)
           THEN IsArray(call.id) /\ call.key = RequestedKeys
           ELSE ~IsArray(call.id) /\ call.key = RequestedKeys[1]

\* the identifier a key ends with
IdOfKey(k) == k.path[Len(k.path)]

\* C20: the key builder turns a string identifier into a number exactly when
\* it denotes a whole number; every other string stays the same string and a
\* number stays that number.
C20_WholeNumberStringsOnly ==
    (call.op = "get" /\ ~IsArray(call.args.id))
        => IF call.args.id.t = "string" /\ call.args.id.x \in WholeNumerals
           THEN IdOfKey(call.key) = Num(call.args.id.x)
           ELSE IdOfKey(call.key) = call.args.id

\* ------------------------------------------------------------- deleteAll
\* the query of a deleteAll was answered with entities
DeleteAllAnswered == call.op = "deleteAll" /\ Events("entities") # {}
DeleteHookRegistered == QueuedPres(schema, "delete") # <<>> \/ QueuedPosts(schema, "delete") # <<>>
DeleteCalls == SelectSeq(log, LAMBDA e : e.ev = "delete")
DeleteAllSucceeded ==
    pc = "done" /\ Outcomes # {} /\ \A i \in Outcomes : ~IsTruthy(log[i].err)
\* the steps of one entity's deletion: its hooks and its delete call
DeletionSteps == {i \in 1..Len(log) : log[i].ev \in {"pre:delete", "delete", "post:delete"}}
PostDeleteRuns(k) == {i \in 1..Len(log) : log[i].ev = "post:delete" /\ log[i].key = k}

\* C11: with a pre- or post-delete hook registered deleteAll deletes the
\* matched entities one key at a time in the order the query returned them,
\* every step of one deletion (hooks and delete call) coming before that
\* deletion's callback and every step of the next one after it, N delete
\* calls and N runs of each post hook once it succeeded; with no delete hook
\* registered it issues one delete call carrying the whole list of keys
C11_DeleteAllSerialOrBatch ==
    DeleteAllAnswered =>
        /\ call.multiple <=> ~DeleteHookRegistered
        /\ IF call.multiple
           THEN /\ Len(DeleteCalls) <= 1
                /\ \A n \in 1..Len(DeleteCalls) : DeleteCalls[n].key = call.queue
                /\ pc \in {"ds.delete", "delete.post"} \/ DeleteAllSucceeded
                      => Len(DeleteCalls) = 1
           ELSE /\ Len(DeleteCalls) <= Len(call.queue)
                /\ \A n \in 1..Len(DeleteCalls) : DeleteCalls[n].key = call.queue[n]
                /\ \A i, j \in DeletionSteps :
                      i < j /\ log[i].key # log[j].key
                          => \E m \in (i + 1)..(j - 1) :
                                log[m].ev = "deleted" /\ log[m].key = log[i].key
                /\ DeleteAllSucceeded
                      => /\ Len(DeleteCalls) = Len(call.queue)
                         /\ \A n \in 1..Len(call.queue) :
                               Cardinality(PostDeleteRuns(call.queue[n]))
                                   = Len(QueuedPosts(schema, "delete"))

\* deleteAll went through two matched entities with only a post-delete hook
\* registered
C11_TwoDeletedWithPostHook ==
    /\ DeleteAllAnswered
    /\ DeleteAllSucceeded
    /\ QueuedPres(schema, "delete") = <<>>
    /\ QueuedPosts(schema, "delete") # <<>>
    /\ Len(call.queue) = 2
    /\ Len(DeleteCalls) = 2

\* ------------------------------------ a transaction argument of the wrong type
BackendCalls == {i \in 1..Len(log) : log[i].ev \in {"get", "save", "delete"}}
Errors == {i \in 1..Len(log) : log[i].ev \in {"cb", "unhandled", "throw"} /\ IsTruthy(log[i].err)}

\* C19: a get, update, delete or save called with a transaction argument
\* that is not a Transaction issues no backend read, save or delete and ends
\* with an error
C19_WrongTransactionFails ==
    call.op \in {"get", "update", "delete", "save"} /\ call.txArg = "bad"
        => /\ BackendCalls = {}
           /\ pc = "done" => Errors # {}

\* ---------------------------------------------------------------- findOne
\* the query was answered with no entity
AnsweredEmpty == \E i \in Events("entities") : Len(log[i].key) = 0
\* the last thing the call did was to hand the caller a failure of this code
DeliveredCode(code) ==
    /\ pc = "done"
    /\ Len(log) > 0
    /\ log[Len(log)].ev = "cb"
    /\ log[Len(log)].err.errorName = code
    /\ Cardinality(Events("cb")) = 1
HookRuns == {i \in 1..Len(log) : log[i].ev \in {"pre:findOne", "post:findOne"}}

\* C15: findOne with params that are not a plain object answers 400 without
\* running a hook or a query; with a plain object it runs at most one query,
\* limited to 1 and filtered by one equality per entry of the object in the
\* object's order, and a query answered with no entity ends in 404 without a
\* post-findOne hook
C15_FindOneQueryAndNotFound ==
    call.op = "findOne" =>
        IF call.params.t # "object" \/ call.params.c # "Object"
        THEN DeliveredCode("400") /\ Events("runQuery") = {} /\ HookRuns = {}
        ELSE /\ call.query.limit = Num("1")
             /\ Len(call.query.filters) = Len(call.params.bag)
             /\ \A n \in 1..Len(call.params.bag) :
                   call.query.filters[n]
                       = Filter(call.params.bag[n].k, "=", call.params.bag[n].v)
             /\ Cardinality(Events("runQuery")) <= 1
             /\ pc = "done" => Cardinality(Events("runQuery")) = 1
             /\ AnsweredEmpty => DeliveredCode("404") /\ Events("post:findOne") = {}

\* findOne with two filters on a kind with a post-findOne hook found nothing
C15_NothingFoundWithPostHook ==
    /\ call.op = "findOne"
    /\ call.params.c = "Object"
    /\ Len(call.query.filters) = 2
    /\ QueuedPosts(schema, "findOne") # <<>>
    /\ AnsweredEmpty
    /\ DeliveredCode("404")

FailedPreFindOne == {i \in Events("pre:findOne") : IsTruthy(log[i].err)}

\* C16: once a pre-findOne hook failed, findOne runs no query and no
\* post-findOne hook and hands the hook's failure to the caller
C16_PreFindOneFailureStops ==
    call.op = "findOne" /\ FailedPreFindOne # {}
        => /\ Events("runQuery") = {}
           /\ Events("post:findOne") = {}
           /\ pc = "done"
           /\ \E i \in FailedPreFindOne : log[Len(log)] = Callback(log[i].err, NoEntity)

\* ------------------------------------------------------------- findAround
FindAroundWith(sides) ==
    /\ call.op = "findAround"
    /\ call.params.c = "Object"
    /\ {side \in {"after", "before"} : BagHas(call.params.bag, side)} = sides

\* C17: findAround with options holding both after and before, or neither,
\* answers 400 and runs no query
C17_BothOrNeitherRejected ==
    FindAroundWith({"after", "before"}) \/ FindAroundWith({})
        => DeliveredCode("400") /\ Events("runQuery") = {}

\* findAround was called with both after and before and answered 400
C17_BothRejected == FindAroundWith({"after", "before"}) /\ DeliveredCode("400")

\* C18: findAround with only after set to a count c filters property > value,
\* orders ascending and limits to c; with only before set to c it filters
\* property < value, orders descending and limits to c
C18_CountDirectsQuery ==
    /\ FindAroundWith({"after"})
          => /\ call.query.filters = <<Filter("age", ">", Num("5"))>>
             /\ call.query.order = <<[property |-> "age", descending |-> FALSE]>>
             /\ call.query.limit = BagGet(call.params.bag, "after")
    /\ FindAroundWith({"before"})
          => /\ call.query.filters = <<Filter("age", "<", Num("5"))>>
             /\ call.query.order = <<[property |-> "age", descending |-> TRUE]>>
             /\ call.query.limit = BagGet(call.params.bag, "before")

\* ------------------------------------------- delete without a transaction
PlainDelete == call.op = "delete" /\ call.txArg = "none"
Delivered == {i \in Events("cb") : ~IsTruthy(log[i].err)}

\* C22: a Model.delete without a transaction runs its pre-delete hooks before
\* its one backend delete and its post-delete hooks after it; nothing is
\* delivered and no post-delete hook runs while the backend has not answered;
\* a backend failure is delivered without any post-delete hook; a response
\* delivered comes after the hooks and, when the backend gave one, carries
\* success = (indexUpdates > 0)
C22_DeleteOrderAndSuccessFlag ==
    PlainDelete =>
        /\ Cardinality(Events("delete")) <= 1
        /\ \A d \in Events("delete") :
              /\ log[d].on = "ds"
              /\ \A h \in Events("pre:delete") : h < d
              /\ \A h \in Events("post:delete") : d < h
        /\ Events("post:delete") # {} => Events("delete") # {}
        /\ pc = "ds.delete" => Events("post:delete") = {} /\ Events("cb") = {}
        /\ \A c \in Events("cb") :
              /\ log[c].err = BackendError => Events("post:delete") = {}
              /\ c = Len(log)
        /\ \A c \in Delivered :
              /\ Events("delete") # {}
              /\ Cardinality(Events("post:delete")) = Len(QueuedPosts(schema, "delete"))
              /\ Cardinality(Events("pre:delete")) = Len(QueuedPres(schema, "delete"))
              /\ log[c].data # <<>>
                    => /\ BagHas(log[c].data, "indexUpdates")
                       /\ BagGet(log[c].data, "success")
                             = (IF BagGet(log[c].data, "indexUpdates") = Num("0")
                                THEN BoolFalse ELSE BoolTrue)

\* a delete with pre and post hooks delivered a response that updated no index
C22_DeletedNothingIndexed ==
    /\ PlainDelete
    /\ pc = "done"
    /\ Events("pre:delete") # {}
    /\ Events("post:delete") # {}
    /\ \E c \in Delivered : BagGet(log[c].data, "indexUpdates") = Num("0")

\* ------------------------------------------------------------ key paths
\* the identifiers Model.key was called with, one per key it built
KeyIds == IF IsArray(call.args.id) THEN call.args.id.items ELSE <<call.args.id>>
KeysBuilt == IF IsArray(call.args.id) THEN call.key ELSE <<call.key>>
IdAbsent(id) == id = JSUndefined \/ id = JSNull
Supplied(namespace) == namespace # JSUndefined /\ namespace # JSNull
\* kinds sit at the odd positions of a path, identifiers at the even ones
Alternates(path) ==
    \A p \in 1..Len(path) : (p % 2 = 1) => path[p].t = "string"

\* C21: every key Model.key builds has the ancestor path it was given,
\* unchanged, followed by the entity's own segment, [kind] when the
\* identifier is absent and [kind, identifier] (the identifier as parseId
\* reads it) otherwise; kinds and identifiers alternate; the key carries the
\* namespace it was given when one was given and none otherwise
C21_AncestorsThenOwnSegment ==
    call.op = "key" =>
        /\ Len(KeysBuilt) = Len(KeyIds)
        /\ \A n \in 1..Len(KeysBuilt) :
              LET k == KeysBuilt[n]
                  a == call.args.ancestors
              IN  /\ SubSeq(k.path, 1, Len(a)) = a
                  /\ Len(k.path) = Len(a) + (IF IdAbsent(KeyIds[n]) THEN 1 ELSE 2)
                  /\ k.path[Len(a) + 1] = entityKind
                  /\ ~IdAbsent(KeyIds[n]) => k.path[Len(a) + 2] = parseId(KeyIds[n])
                  /\ Alternates(k.path)
                  /\ k.namespace = (IF Supplied(call.args.namespace)
                                    THEN call.args.namespace ELSE JSUndefined)

\* two keys were built under a two-level ancestor path in a namespace
C21_TwoKeysUnderAncestors ==
    /\ call.op = "key"
    /\ Len(KeysBuilt) = 2
    /\ Len(call.args.ancestors) = 4
    /\ call.args.namespace = Str("ns")
    /\ \A n \in 1..2 : Len(KeysBuilt[n].path) = 6

\* ------------------------------------------------- the next-page cursor
Querying == call.op \in {"query.run", "list"}

\* C23: the response of query().run and of list carries nextPageCursor
\* exactly when the moreResults the backend handed over is not
\* NO_MORE_RESULTS, and it is then the backend's endCursor; a failure of the
\* query is delivered with no response
C23_CursorWhenMoreResults ==
    Querying =>
        /\ Cardinality(Events("cb")) <= 1
        /\ \A c \in Events("cb") :
              IF IsTruthy(log[c].err)
              THEN log[c].data = <<>> /\ Events("entities") = {}
              ELSE /\ Cardinality(Events("entities")) = 1
                   /\ \A e \in Events("entities") :
                         /\ e < c
                         /\ Len(BagGet(log[c].data, "entities")) = Len(log[e].key)
                         /\ BagHas(log[c].data, "nextPageCursor")
                               <=> BagGet(log[e].data, "moreResults") # Str("NO_MORE_RESULTS")
                         /\ BagHas(log[c].data, "nextPageCursor")
                               => BagGet(log[c].data, "nextPageCursor")
                                     = BagGet(log[e].data, "endCursor")

\* list answered two entities and the cursor of a backend that has more
C23_ListedWithCursor ==
    /\ call.op = "list"
    /\ pc = "done"
    /\ \E c \in Delivered :
          /\ Len(BagGet(log[c].data, "entities")) = 2
          /\ BagGet(log[c].data, "nextPageCursor") = Str("def")

\* ------------------------------------------------------- required fields
\* what entity.validate() reports for the entity of the save
Reported == validate(EntityData, schema).errors
RequiredReported(k) == BagHas(Reported, k) /\ BagGet(Reported, k).errorName = "Required"

\* C30: validate reports a Required error under every field of the data bag
\* that is declared required: true and holds an empty value, whatever other
\* rules the field carries, and reports none under a required field that
\* holds a value
C30_RequiredAlwaysReported ==
    call.op = "save" =>
        \A n \in 1..Len(EntityData) :
            isRequired(schema, EntityData[n].k)
                => (RequiredReported(EntityData[n].k) <=> valueIsEmpty(EntityData[n].v))

\* ------------------------------------------- the schema registry, called
\* The application builds a schema and registers on it; every call is
\* synchronous.  log is the history of the calls made since the schema in
\* hand was built: what was called, with what, what it returned or threw.
MaxCalls == 3

Registry(ev, on, arg, result, err) ==
    [ev |-> ev, on |-> on, arg |-> arg, result |-> result, err |-> err]

ReservedError(name) == ErrorOf("Error", "", name, "reserved")

StringPath == [type |-> "string"]
IntPath == [type |-> "int", optional |-> TRUE]

\* the objects handed to new Schema
SchemaObjects ==
    {<<>>,
     <<Entry("title", StringPath)>>,
     <<Entry("title", StringPath), Entry("modelName", StringPath)>>,
     <<Entry("ds", IntPath)>>,
     <<Entry("constructor", StringPath)>>}

PathNames == {"title", "age", "ds", "toString"}
PathArgs == {JSUndefined, StringPath, IntPath}
Operations == {"save", "delete", "findOne"}
HookFns == {"fn1", "fn2"}
VirtualNames == {"fullname", "hasOwnProperty"}
MethodMapping ==
    ObjectOf(<<Entry("doSomething", Fn("fn1")), Entry("doAnotherThing", Num("123"))>>)
MethodNames == {Str("doSomething"), Str("doOther"), Num("10"), JSNull, MethodMapping}
MethodFns == {Fn("fn1"), Fn("fn2"), Num("123"), JSUndefined}

InitSchema ==
    /\ schema = SchemaNew(<<>>, <<>>)
    /\ store = <<>>
    /\ tx = NoTransaction
    /\ own = NoTransaction
    /\ call = NoCall
    /\ pc = "idle"
    /\ log = <<>>

CanRegister == pc = "idle" /\ Len(log) < MaxCalls

Registered(event) ==
    /\ log' = Append(log, event)
    /\ UNCHANGED <<store, tx, own, call, pc>>

\* new Schema(obj): the schema in hand is the new one when none of the names
\* is refused
Construct ==
    \E obj \in SchemaObjects :
        /\ CanRegister
        /\ IF SchemaThrows(obj)
           THEN /\ schema' = schema
                /\ log' = Append(log, Registry("new", "", obj, JSUndefined,
                        ReservedError(obj[CHOOSE i \in 1..Len(obj) :
                            /\ ReservedLookup(obj[i].k)
                            /\ \A j \in 1..(i - 1) : ~ReservedLookup(obj[j].k)].k)))
           ELSE /\ schema' = SchemaNew(obj, <<>>)
                /\ log' = <<Registry("new", "", obj, JSUndefined, NoError)>>
        /\ UNCHANGED <<store, tx, own, call, pc>>

\* schema.path(path) reads, schema.path(path, obj) writes
Path ==
    \E path \in PathNames, obj \in PathArgs :
        /\ CanRegister
        /\ IF obj = JSUndefined
           THEN /\ schema' = schema
                /\ Registered(Registry("path", path, obj,
                        IF SchemaHasPath(schema, path) THEN SchemaPath(schema, path)
                        ELSE IF path \in ObjectPrototypeKeys THEN Fn(path)
                        ELSE JSUndefined,
                        NoError))
           ELSE IF PathThrows(path)
           THEN /\ schema' = schema
                /\ Registered(Registry("path", path, obj, JSUndefined, ReservedError(path)))
           ELSE /\ schema' = SchemaSetPath(schema, path, obj)
                /\ Registered(Registry("path", path, obj, JSUndefined, NoError))

\* schema.pre(hook, fn)
Pre ==
    \E hook \in Operations, fn \in HookFns :
        /\ CanRegister
        /\ IF HookThrows(schema, hook)
           THEN /\ schema' = schema
                /\ Registered(Registry("pre", hook, fn, JSUndefined, TypeError))
           ELSE /\ schema' = SchemaPre(schema, hook, fn)
                /\ Registered(Registry("pre", hook, fn, JSUndefined, NoError))

\* schema.post(hook, fn)
Post ==
    \E hook \in Operations, fn \in HookFns :
        /\ CanRegister
        /\ IF HookThrows(schema, hook)
           THEN /\ schema' = schema
                /\ Registered(Registry("post", hook, fn, JSUndefined, TypeError))
           ELSE /\ schema' = SchemaPost(schema, hook, fn)
                /\ Registered(Registry("post", hook, fn, JSUndefined, NoError))

\* schema.callQueue = {}
ResetCallQueue ==
    /\ CanRegister
    /\ schema' = [schema EXCEPT !.callQueue = <<>>]
    /\ Registered(Registry("reset", "", JSUndefined, JSUndefined, NoError))

\* schema.virtual(name): the result is the handle, as its position in
\* virtualTypes
Virtual ==
    \E name \in VirtualNames :
        /\ CanRegister
        /\ IF VirtualThrows(schema)
           THEN /\ schema' = schema
                /\ Registered(Registry("virtual", name, JSUndefined, 0, TypeError))
           ELSE /\ schema' = SchemaVirtual(schema, name)
                /\ Registered(Registry("virtual", name, JSUndefined,
                        VirtualHandle(SchemaVirtual(schema, name), name), NoError))

\* the handles schema.virtual has returned so far
HandlesReturned ==
    {log[i].result : i \in {j \in 1..Len(log) : log[j].ev = "virtual" /\ log[j].err = NoError}}

\* handle.get(fn) and handle.set(fn) on a handle the application holds
Attach ==
    \E h \in HandlesReturned, fn \in HookFns :
        /\ CanRegister
        /\ \/ /\ schema' = VirtualGet(schema, h, fn)
              /\ Registered(Registry("get", "", fn, h, NoError))
           \/ /\ schema' = VirtualSet(schema, h, fn)
              /\ Registered(Registry("set", "", fn, h, NoError))

\* schema.method(name, fn) and schema.method(mapping)
Method ==
    \E name \in MethodNames, fn \in MethodFns :
        /\ CanRegister
        /\ schema' = SchemaMethod(schema, name, fn)
        /\ Registered(Registry("method", name, fn, JSUndefined,
                IF MethodThrows(name) THEN TypeError ELSE NoError))

NextSchema ==
    \/ Construct
    \/ Path
    \/ Pre
    \/ Post
    \/ ResetCallQueue
    \/ Virtual
    \/ Attach
    \/ Method

SpecSchema == InitSchema /\ [][NextSchema]_vars

\* ------------------------------------------------ schema registry claims
Refused(i) == log[i].err # NoError
LastCall == log[Len(log)]
JustCalled(ev) == Len(log) > 0 /\ LastCall.ev = ev

\* C24: new Schema(obj) and schema.path(name, descriptor) throw exactly when
\* a name is in the reserved set and store the descriptor unchanged for every
\* other name; no key of schema.paths is ever a reserved name.
C24_ReservedNamesOnlyRefused ==
    /\ \A i \in Events("new") :
            Refused(i) <=> (BagKeySet(log[i].arg) \cap reserved # {})
    /\ \A i \in Events("path") :
            log[i].arg # JSUndefined => (Refused(i) <=> log[i].on \in reserved)
    /\ (JustCalled("new") /\ ~Refused(Len(log))) => schema.paths = LastCall.arg
    /\ (JustCalled("path") /\ LastCall.arg # JSUndefined /\ ~Refused(Len(log)))
            => BagGet(schema.paths, LastCall.on) = LastCall.arg
    /\ BagKeySet(schema.paths) \cap reserved = {}

QueueIntact == Has(schema.callQueue, "entity") /\ Has(schema.callQueue, "model")

\* the functions the calls so far registered for an operation, in call order
RECURSIVE Args(_, _)
Args(events, i) ==
    IF i > Len(events) THEN <<>> ELSE <<events[i].arg>> \o Args(events, i + 1)

RegisteredFor(ev, op) ==
    Args(SelectSeq(log, LAMBDA e : e.ev = ev /\ e.on = op /\ e.err = NoError), 1)

\* the constructor registers the default middleware before any call
ExpectedPres(op) ==
    (IF op = "save" THEN <<ValidateMiddleware>> ELSE <<>>) \o RegisteredFor("pre", op)
ExpectedPosts(op) == RegisteredFor("post", op)

SavePreList == schema.callQueue["entity"]["save"].pres

\* C26: on every schema, after construction and after any later pre / post
\* registrations, the pre-hook list of 'save' starts with the default
\* validation hook and the user's pre-save hooks come after it.
C26_ValidationHookFirst ==
    (QueueIntact /\ Events("reset") = {}) =>
        /\ Has(schema.callQueue["entity"], "save")
        /\ Len(SavePreList) >= 1
        /\ SavePreList[1] = ValidateMiddleware
        /\ \A n \in 2..Len(SavePreList) : SavePreList[n] \in HookFns
        /\ Len(SavePreList) = 1 + Cardinality(EventsOn("pre", "save"))

C26_TwoUserPreSaveHooks ==
    /\ QueueIntact
    /\ Cardinality(EventsOn("pre", "save")) = 2
    /\ Cardinality(EventsOn("post", "save")) = 1
    /\ Len(SavePreList) = 3

\* the call before the last one reset the call queue
AfterReset == Len(log) >= 2 /\ log[Len(log) - 1].ev = "reset"
JustBuilt == Len(log) = 0 \/ (JustCalled("new") /\ ~Refused(Len(log)))

\* C27: the call queue is addressed by operation name: after construction
\* callQueue.save exists and callQueue.save.pres has length 1, and after
\* pre(op, fn) or post(op, fn) on a schema whose call queue was reset to an
\* empty object fn is the first element of callQueue[op].pres or
\* callQueue[op].post.
C27_QueueAddressedByOperation ==
    /\ JustBuilt =>
            /\ Has(schema.callQueue, "save")
            /\ Len(schema.callQueue["save"].pres) = 1
    /\ (AfterReset /\ JustCalled("pre")) =>
            /\ ~Refused(Len(log))
            /\ Has(schema.callQueue, LastCall.on)
            /\ schema.callQueue[LastCall.on].pres[1] = LastCall.arg
    /\ (AfterReset /\ JustCalled("post")) =>
            /\ ~Refused(Len(log))
            /\ Has(schema.callQueue, LastCall.on)
            /\ schema.callQueue[LastCall.on].post[1] = LastCall.arg

\* the calls of schema.virtual(name) so far, earliest first
VirtualCalls(name) == {i \in 1..Len(log) : log[i].ev = "virtual" /\ log[i].on = name}

\* C28: declaring a virtual is idempotent: every call of schema.virtual(name)
\* after the first returns the handle the first call created, and a getter or
\* setter attached through one of them is the one the other shows.
C28_VirtualIdempotent ==
    \A name \in VirtualNames :
        \A i \in VirtualCalls(name), j \in VirtualCalls(name) :
            i < j =>
                /\ ~Refused(j)
                /\ log[j].result = log[i].result
                /\ schema.virtualTypes[log[j].result] = schema.virtualTypes[log[i].result]

\* what the i-th call hands the methods table under the name k: a function
\* under a string name, or a function-valued entry of a mapping
Hands(i, k) ==
    /\ log[i].ev = "method"
    /\ \/ /\ log[i].on.t = "string"
          /\ log[i].on.x = k
          /\ log[i].arg.t = "function"
       \/ /\ log[i].on.c = "Object"
          /\ \E n \in 1..Len(log[i].on.bag) :
                log[i].on.bag[n].k = k /\ log[i].on.bag[n].v.t = "function"

Handed(i, k) ==
    IF log[i].on.t = "string" THEN log[i].arg ELSE BagGet(log[i].on.bag, k)

MethodKeys == {"doSomething", "doOther", "doAnotherThing", "10", "null"}

\* C29: method(name, fn) adds fn only when name is a string and fn a
\* function, method(mapping) adds exactly the function-valued entries of the
\* mapping, and every other call leaves the methods table as it was: the
\* table holds, for each name, the function the last such call handed it,
\* and nothing else.
C29_MethodsTableFrame ==
    /\ Len(schema.methods) = Cardinality(BagKeySet(schema.methods))
    /\ \A k \in MethodKeys :
            BagHas(schema.methods, k) <=> (\E i \in 1..Len(log) : Hands(i, k))
    /\ \A k \in BagKeySet(schema.methods) :
            /\ k \in MethodKeys
            /\ \E i \in 1..Len(log) :
                    /\ Hands(i, k)
                    /\ \A j \in (i + 1)..Len(log) : ~Hands(j, k)
                    /\ BagGet(schema.methods, k) = Handed(i, k)

C29_MappingAddedItsFunctionOnly ==
    /\ Len(log) = 3
    /\ log[1].ev = "method" /\ log[1].on = Str("doOther") /\ log[1].arg = Fn("fn2")
    /\ log[2].ev = "method" /\ log[2].on = Str("doSomething") /\ log[2].arg = Num("123")
    /\ log[3].ev = "method" /\ log[3].on = MethodMapping
    /\ schema.methods = <<Entry("doOther", Fn("fn2")), Entry("doSomething", Fn("fn1"))>>

\* ------------------------------------------------- validate, key by key
\* the schema was built with explicitOnly: true
ExplicitOnlyMode == Has(schema.options, "explicitOnly") /\ schema.options["explicitOnly"] = TRUE

\* the keys of the data bag the schema neither declares nor holds as virtual
Undeclared ==
    {k \in BagKeySet(EntityData) : ~SchemaHasPath(schema, k) /\ k \notin schema.virtuals}

\* C31: validate reports a `properties` error for an undeclared key of the
\* data bag exactly when the schema is in explicit-only mode; under any other
\* options, the default options included, an undeclared key adds no error.
C31_PropertiesErrorOnlyWhenExplicit ==
    call.op = "save" =>
        (BagHas(Reported, "properties") <=> (Undeclared # {} /\ ExplicitOnlyMode))

\* what validate leaves of the data bag
Validated == validate(EntityData, schema).entityData

\* C32: validate removes from the data bag every key that names a virtual
\* field and reports no error for it; every other key stays, with its value
\* and in its place.
C32_VirtualsRemovedRestKept ==
    call.op = "save" =>
        /\ Validated = SelectSeq(EntityData, LAMBDA e : e.k \notin schema.virtuals)
        /\ \A n \in 1..Len(Reported) : Reported[n].v.field \notin schema.virtuals

C32_TwoVirtualsRemoved ==
    /\ call.op = "save"
    /\ pc = "done"
    /\ BagGet(EntityData, "age") = Str("abc")
    /\ BagHas(EntityData, "fullname")
    /\ {"age", "fullname"} \subseteq schema.virtuals
    /\ BagKeySet(Validated) = {"name"}

\* the checks that fail for the key k of the data bag, each on its own, in
\* the order validate runs them; the first two report under a category key
FailingChecks(k) ==
    LET v == BagGet(EntityData, k)
    IN  CheckProperties(<<>>, schema, k)
            \o CheckType(<<>>, schema, k, v)
            \o CheckRequired(<<>>, schema, k, v)
            \o CheckFormat(<<>>, schema, k, v)
            \o CheckValues(<<>>, schema, k, v)

\* those of them that report under the name of the field
FieldChecks(k) == SelectSeq(FailingChecks(k), LAMBDA e : e.k = k)

CategoryKeys == {"properties", "datetime"}

\* C33: validate succeeds exactly when no check failed for any key of the
\* data bag; on failure a field's key holds one error, the one of the last
\* check that failed for the field in the order type, required, format,
\* allowed values, and a field none of whose checks failed holds none.
C33_SuccessIffNoFailureLastCheckKept ==
    call.op = "save" =>
        /\ validate(EntityData, schema).success
                <=> (\A k \in BagKeySet(EntityData) : FailingChecks(k) = <<>>)
        /\ Len(Reported) = Cardinality(BagKeySet(Reported))
        /\ \A k \in BagKeySet(EntityData) :
                IF FieldChecks(k) = <<>>
                THEN ~BagHas(Reported, k)
                ELSE /\ BagHas(Reported, k)
                     /\ BagGet(Reported, k) = FieldChecks(k)[Len(FieldChecks(k))].v
        /\ BagKeySet(Reported) \subseteq BagKeySet(EntityData) \cup CategoryKeys

\* a required field failed two checks and holds the error of the later one
C33_ValuesErrorReplacedRequired ==
    /\ call.op = "save"
    /\ pc = "done"
    /\ Len(FieldChecks("status")) = 2
    /\ FieldChecks("status")[1].v.check = "required"
    /\ BagGet(Reported, "status").check = "values"
    /\ ~validate(EntityData, schema).success

\* the fields of the data bag validate type-checks as `type`: declared so,
\* not virtual, holding a value
TypeChecked(type) ==
    {k \in BagKeySet(EntityData) :
        /\ SchemaHasPath(schema, k)
        /\ k \notin schema.virtuals
        /\ Has(SchemaPath(schema, k), "type")
        /\ SchemaPath(schema, k).type = type
        /\ ~valueIsEmpty(BagGet(EntityData, k))}

Numerals == {"0", "1", "2", "3", "5", "123", "1234", "1.5"}
IntegerValued(v) == v.t = "number" /\ v.x \in Numerals \ {"1.5"}
WrapsANumber(v, wrapper) == v.c = wrapper /\ v.x \in Numerals

TypeErrorReported(k) ==
    /\ BagHas(Reported, k)
    /\ BagGet(Reported, k).class = "ValidationError"
    /\ BagGet(Reported, k).field = k

\* C34: a field of type int passes the type check exactly for an
\* integer-valued number or an Int wrapper from whose value parseInt reads an
\* integer, and fails for a number with a fraction; a field of type double
\* passes for every number, whole or not, and for a Double wrapper whose
\* value parses; a failure is a ValidationError under the field's name.
C34_IntAndDoubleTypeCheck ==
    call.op = "save" =>
        /\ \A k \in TypeChecked("int") :
                TypeErrorReported(k)
                    <=> ~(\/ IntegerValued(BagGet(EntityData, k))
                          \/ WrapsANumber(BagGet(EntityData, k), "Int"))
        /\ \A k \in TypeChecked("double") :
                TypeErrorReported(k)
                    <=> ~(\/ BagGet(EntityData, k).t = "number"
                          \/ WrapsANumber(BagGet(EntityData, k), "Double"))

\* a whole number passed as a double next to a fraction refused as an int
C34_WholeDoubleFractionInt ==
    /\ call.op = "save"
    /\ pc = "done"
    /\ BagGet(EntityData, "price") = Num("3")
    /\ BagGet(EntityData, "age") = Num("1.5")
    /\ TypeErrorReported("age")
    /\ ~BagHas(Reported, "price")

\* a Date, or a string that is a date
IsDatetime(v) == v.c = "Date" \/ (v.t = "string" /\ v.x \in {"2016-01-01", "2016-01-01T10:00:00"})

\* the datetime fields of the data bag that hold something else, in data-bag
\* order
WrongDatetimes ==
    SelectSeq(BagKeys(EntityData),
              LAMBDA k : k \in TypeChecked("datetime") /\ ~IsDatetime(BagGet(EntityData, k)))

\* C35: a datetime mismatch is recorded under the category key `datetime`
\* and never under the name of the field; of several wrong datetime fields
\* the entry kept is that of the last one in data-bag order.
C35_DatetimeCategoryLastWins ==
    call.op = "save" =>
        /\ BagHas(Reported, "datetime") <=> WrongDatetimes # <<>>
        /\ WrongDatetimes # <<>> =>
                /\ BagGet(Reported, "datetime").field = WrongDatetimes[Len(WrongDatetimes)]
                /\ BagGet(Reported, "datetime").errorName = "Wrong format"
        /\ \A k \in BagKeySet(Reported) \ {"datetime"} :
                BagGet(Reported, k).check # "datetime"
        /\ \A n \in 1..Len(WrongDatetimes) : ~BagHas(Reported, WrongDatetimes[n])

\* a number and a non-date string in two datetime fields
C35_TwoWrongDatetimes ==
    /\ call.op = "save"
    /\ pc = "done"
    /\ WrongDatetimes = <<"createdOn", "publishedOn">>
    /\ BagGet(EntityData, "createdOn") = Num("3")
    /\ BagGet(Reported, "datetime").field = "publishedOn"

\* ------------------------------------------------ Model.excludeFromIndexes
\* arrify(v): nothing for null and undefined, the value alone otherwise
Arrify(v) == IF v \in {JSNull, JSUndefined} THEN <<>> ELSE <<v>>

ExcludedPath == [optional |-> TRUE, excludeFromIndexes |-> TRUE]

\* a variant that replaces the descriptor of a declared field
RECURSIVE ExcludeFromReplacing(_, _, _)
ExcludeFromReplacing(sch, names, i) ==
    IF i > Len(names)
    THEN [schema |-> sch, thrown |-> NoError]
    ELSE IF ~SchemaHasPath(sch, names[i].x) /\ PathThrows(names[i].x)
         THEN [schema |-> sch, thrown |-> ReservedError(names[i].x)]
         ELSE ExcludeFromReplacing(SchemaSetPath(sch, names[i].x, ExcludedPath),
                                   names, i + 1)

\* the turns of properties.forEach from the i-th name on: the schema they
\* leave and what schema.path threw, if it did
RECURSIVE ExcludeFrom(_, _, _)
ExcludeFrom(sch, names, i) ==
    IF i > Len(names)
    THEN [schema |-> sch, thrown |-> NoError]
    ELSE IF ~SchemaHasPath(sch, names[i].x)
         THEN IF PathThrows(names[i].x)
              THEN [schema |-> sch, thrown |-> ReservedError(names[i].x)]
              ELSE ExcludeFrom(SchemaSetPath(sch, names[i].x, ExcludedPath), names, i + 1)
         ELSE ExcludeFrom(
                SchemaSetPath(sch, names[i].x,
                    Extend(SchemaPath(sch, names[i].x), [excludeFromIndexes |-> TRUE])),
                names, i + 1)

excludeFromIndexesReplacing(sch, properties) ==
    ExcludeFromReplacing(sch, IF IsArray(properties) THEN properties.items
                              ELSE Arrify(properties), 1)

excludeFromIndexes(sch, properties) ==
    ExcludeFrom(sch, IF IsArray(properties) THEN properties.items ELSE Arrify(properties), 1)

\* what the application names: declared and undeclared fields, one or a list
IndexedProperties ==
    {Str("name"), Str("nick"), Str("ds"), JSUndefined,
     ArrayOf(<<Str("age"), Str("nick")>>),
     ArrayOf(<<Str("title"), Str("ds"), Str("name")>>)}

InitIndexes ==
    /\ schema \in {SchemaNew(<<>>, <<>>), SchemaNew(LifecyclePaths, <<>>)}
    /\ store = <<>>
    /\ tx = NoTransaction
    /\ own = NoTransaction
    /\ call = NoCall
    /\ pc = "idle"
    /\ log = <<>>

\* Model.excludeFromIndexes(properties); the event keeps the paths the call
\* found
ExcludeFromIndexes ==
    \E properties \in IndexedProperties :
        /\ CanRegister
        /\ schema' = excludeFromIndexes(schema, properties).schema
        /\ Registered(Registry("excludeFromIndexes", "", properties, schema.paths,
                excludeFromIndexes(schema, properties).thrown))

NextIndexes ==
    \/ ExcludeFromIndexes
    \/ Path

SpecIndexes == InitIndexes /\ [][NextIndexes]_vars

\* the names the last call was handed
LastNamed ==
    LET properties == LastCall.arg
        names == IF IsArray(properties) THEN properties.items ELSE Arrify(properties)
    IN  {names[n].x : n \in 1..Len(names)}

Returned(ev) == JustCalled(ev) /\ ~Refused(Len(log))

C37_CallbackExactlyOnce ==
    (call.op \in {"update", "delete"} /\ call.txArg \in {"none", "tx"}) =>
        /\ Cardinality(Events("cb")) <= 1
        /\ pc = "done" => Cardinality(Events("cb")) = 1

\* ------------------------------------- update and the caller's transaction
UpdateSucceeded ==
    /\ call.op = "update"
    /\ pc = "done"
    /\ \E i \in Events("cb") : log[i].err = NoError

\* C38: Model.update never commits a transaction the caller supplied: it
\* issues its get and its save on that transaction and on success leaves it
\* open, for the caller to commit; a commit is only ever issued on the
\* transaction update opened itself.
C38_CallerTransactionNeverCommitted ==
    /\ \A i \in Events("commit") :
            log[i].on = "own" /\ call.op = "update" /\ call.mode = "own"
    /\ pc = "commit" => (call.op = "update" /\ call.mode = "own")
    /\ (call.op = "update" /\ call.mode = "tx") =>
            /\ \A i \in Events("get") \cup Events("save") : log[i].on = "tx"
            /\ tx.state # "committed"
            /\ UpdateSucceeded =>
                    /\ tx.state = "open"
                    /\ Cardinality(Events("get")) = 1
                    /\ Cardinality(Events("save")) = 1

\* an update on the caller's transaction succeeded
C38_UpdatedOnOpenTransaction ==
    /\ UpdateSucceeded
    /\ call.mode = "tx"
    /\ tx.state = "open"
    /\ Events("save") # {}

\* ------------------------------------------ the post-hook queue of a transaction
\* the saves and deletes the call has issued on the caller's transaction
TransactionOps(l) ==
    SelectSeq(l, LAMBDA e : e.ev \in {"save", "delete"} /\ e.on = "tx")

QueuedFor(e) == IF e.ev = "save" THEN "emit:save" ELSE "execPost:delete"

\* C39: each save and delete issued on a transaction adds one entry at the
\* end of the transaction's post-hook queue and nothing else changes the
\* queue: preparing a transaction that is prepared leaves its queue alone, so
\* the queue holds one entry per call in call order; executing the queue runs
\* every entry once, in that order.
C39_QueueOneEntryPerCallInOrder ==
    [][/\ IF Len(TransactionOps(log')) > Len(TransactionOps(log))
          THEN /\ Len(TransactionOps(log')) = Len(TransactionOps(log)) + 1
               /\ tx'.post = Append(tx.post,
                        QueuedFor(TransactionOps(log')[Len(TransactionOps(log'))]))
          ELSE tx'.post = tx.post
       /\ tx.hasHooks => tx'.hasHooks
       /\ tx'.executed # tx.executed => (tx.executed = <<>> /\ tx'.executed = tx.post)
      ]_vars

\* a save and a delete on one transaction, committed
C39_SaveThenDeleteExecuted ==
    /\ tx.state = "committed"
    /\ tx.post = <<"emit:save", "execPost:delete">>
    /\ tx.executed = tx.post

\* ------------------------------------------- deleteAll, a deletion failing
\* the deletions of the series that ended, and those of them that failed
Settled == {i \in 1..Len(log) : log[i].ev = "deleted"}
FailedDeletions == {i \in Settled : log[i].err # NoError}
PositionOf(k) == CHOOSE n \in 1..Len(call.queue) : call.queue[n] = k

\* C40: in hook mode deleteAll stops at the first entity whose deletion
\* fails, by a hook or by the backend: no entity later in query order gets a
\* delete call or a hook run, the deletions before it were carried out and
\* nothing is issued to undo them, and the caller receives the error in place
\* of the success message.
C40_StopsAtFirstFailedDeletion ==
    (DeleteAllAnswered /\ ~call.multiple) =>
        \A m \in FailedDeletions :
            /\ pc = "done"
            /\ \A j \in (m + 1)..Len(log) : log[j].ev = "cb"
            /\ \A j \in Events("cb") :
                    /\ j = m + 1
                    /\ log[j].err = log[m].err
                    /\ log[j].data = <<>>
            /\ Cardinality(Events("cb")) = 1
            /\ \A i \in DeletionSteps : PositionOf(log[i].key) <= PositionOf(log[m].key)
            /\ \A n \in 1..(PositionOf(log[m].key) - 1) :
                    /\ \E i \in Events("delete") : log[i].key = call.queue[n]
                    /\ \E i \in Settled : log[i].key = call.queue[n] /\ log[i].err = NoError
            /\ Events("save") = {}

\* two entities matched and the deletion of the first one failed
C40_FirstOfTwoFailed ==
    /\ DeleteAllAnswered
    /\ ~call.multiple
    /\ Len(call.queue) = 2
    /\ pc = "done"
    /\ \E m \in FailedDeletions : log[m].key = call.queue[1]

====
